---- MODULE Spec2Model ----
(***************************************************************************)
(* Liminal Session Store (LSS): session history, coherence scoring, drift  *)
(* detection and TTL eviction, as implemented by                           *)
(*   packages/python-lpi/lpi/lss/__init__.py   (storage-backed LSS, "lpi") *)
(*   packages/python-lri/lri/lss/__init__.py   (in-memory LSS, "lri")      *)
(*   packages/python-lri/lri/lss.py            (dict-based LSS, "dict")    *)
(*                                                                         *)
(* Floats are fixed-point integers with Scale units per 1.0; PAD values    *)
(* and intent-vector entries are carried with two resp. one decimal.       *)
(* Optional values are sequences: <<>> is None, <<x>> is a present x.      *)
(*                                                                         *)
(* Envelope signing and verification, as implemented by                    *)
(*   packages/python-lri/lri/cbor_cose.py      (COSE_Sign1, embedded sig)  *)
(*   packages/python-lri/lri/ltp.py            (JWS compact form)          *)
(*   packages/python-lri/lri/ltp/__init__.py   (detached JCS signature)    *)
(***************************************************************************)
EXTENDS Integers, Sequences, FiniteSets, TLC

VARIABLES
    impl,                  \* which LSS class is instantiated: "lpi", "lri", "dict"
    backend,               \* lpi storage backend: "memory" or "redis"
    max_messages,          \* LSS.max_messages
    session_ttl,           \* LSS.session_ttl (clock units)
    coherence_window,      \* LSS.coherence_window
    drift_min_coherence,   \* LSS.drift_min_coherence (fixed-point)
    drift_drop_threshold,  \* LSS.drift_drop_threshold (fixed-point)
    topic_shift_window,    \* LSS.topic_shift_window
    sessions,              \* the store: thread id -> session (a dict)
    listeners,             \* LSS._listeners["drift"], in registration order
    now,                   \* the wall clock read by datetime.now()
    calls,                 \* the store() calls run step by step, one record each
    heap,                  \* the session objects the store does not hold: object id -> session
    resident,              \* in memory, while calls run: thread id -> id of the object held
    last,                  \* history variable: the last completed API call and its outcome
    hist,                  \* history variable: per thread, the messages stored since creation
    lastStored,            \* history variable: per thread, <<time of the last store>> or <<>>
    nstores,               \* number of store() calls made so far
    nupdates,              \* number of update_metrics() calls made so far
    wire,                  \* the signed artefact at hand and how it came about
    verdict,               \* the outcome of the last verification of it
    ws,                    \* a WebSocket connection: its two ends and the frames in flight
    twin                   \* two LSS given the same calls, one over each storage backend

config == <<impl, backend, max_messages, session_ttl, coherence_window,
            drift_min_coherence, drift_drop_threshold, topic_shift_window>>
inflight == <<calls, heap, resident>>
signing == <<wire, verdict>>
vars == <<signing, ws, twin, config, sessions, listeners, now, inflight, last, hist, lastStored, nstores, nupdates>>

----------------------------------------------------------------------------
(* Bounds of the model *)

MaxStores == 3
MaxN == 2
MaxK == 4
MaxClock == 2
MaxListeners == 2

Scale == 100 * 100
None == <<>>
Some(x) == <<x>>

\* nothing signed yet, nothing verified yet
NoWire == [form |-> "none"]
NoVerdict == [op |-> "none"]
\* no WebSocket connection has been opened
NoConnection ==
    [client |-> "idle", server |-> "idle", c2s |-> <<>>, s2c |-> <<>>, log |-> <<>>,
     thread_id |-> <<>>, negotiated_encoding |-> <<>>, session_id |-> <<>>,
     server_thread |-> <<>>, server_encoding |-> <<>>, sessions |-> {}, raised |-> <<>>]

Threads == {"t1", "t2"}
Callbacks == {"cb1", "cb2"}

----------------------------------------------------------------------------
(* Python helpers *)

Min(a, b) == IF a < b THEN a ELSE b
Max(a, b) == IF a > b THEN a ELSE b

\* seq[-n:] : the last n elements; the whole list for n = 0 (since -0 = 0),
\* the list without its first -n elements for n < 0.
SliceLast(seq, n) ==
    IF n = 0 THEN seq
    ELSE IF n > 0 THEN SubSeq(seq, Max(1, Len(seq) - n + 1), Len(seq))
    ELSE SubSeq(seq, Min(Len(seq), -n) + 1, Len(seq))

RECURSIVE SumSeq(_)
SumSeq(s) == IF s = <<>> THEN 0 ELSE Head(s) + SumSeq(Tail(s))

\* sum(values) / len(values)
Mean(values) == SumSeq(values) \div Len(values)

Range(seq) == {seq[i] : i \in DOMAIN seq}

\* floor(sqrt(n)) for n >= 0
RECURSIVE ISqrtBetween(_, _, _)
ISqrtBetween(n, lo, hi) ==
    IF lo >= hi THEN lo
    ELSE LET mid == (lo + hi + 1) \div 2
         IN IF mid * mid <= n THEN ISqrtBetween(n, mid, hi)
                              ELSE ISqrtBetween(n, lo, mid - 1)
ISqrt(n) == ISqrtBetween(n, 0, 46340)

\* math.exp(-x) for a fixed-point x >= 0: exp(-x) = (1 / exp(x/4))^4, exp(x/4)
\* by its power series.
RECURSIVE ExpSeries(_, _, _)
ExpSeries(y, k, term) ==
    IF term = 0 \/ k > 20 THEN 0
    ELSE term + ExpSeries(y, k + 1, (term * y) \div (k * Scale))
ExpNeg(x) ==
    LET e   == ExpSeries(x \div 4, 1, Scale)
        inv == (Scale * Scale) \div e
        sq  == (inv * inv) \div Scale
    IN (sq * sq) \div Scale

----------------------------------------------------------------------------
(* Floating-point arithmetic, for the claims on exact values.  The session
   model below carries the scores as fixed-point numbers of four decimals;
   these operators compute what Python computes, bit for bit. *)

\* F(a) and F(a, b) with the arguments evaluated once, before the call
Call1(F(_), a) == CHOOSE result \in {F(x) : x \in {a}} : TRUE
Call2(F(_, _), a, b) == CHOOSE result \in {F(x, y) : x \in {a}, y \in {b}} : TRUE

(* Natural numbers of any size, as TLC's integers have 32 bits: limbs of 14
   bits, the lowest first *)
LimbBits == 2 * 7
Base == 128 * 128

RECURSIVE Pow2(_)
Pow2(n) == IF n = 0 THEN 1 ELSE 2 * Pow2(n - 1)

Limb(a, i) == IF i \in DOMAIN a THEN a[i] ELSE 0

RECURSIVE BigTrim(_)
BigTrim(a) ==
    IF a # <<>> /\ a[Len(a)] = 0 THEN BigTrim(SubSeq(a, 1, Len(a) - 1)) ELSE a

RECURSIVE BigAddFrom(_, _, _, _)
BigAddFrom(a, b, i, carry) ==
    IF i > Len(a) /\ i > Len(b) THEN (IF carry = 0 THEN <<>> ELSE <<carry>>)
    ELSE <<(Limb(a, i) + Limb(b, i) + carry) % Base>>
             \o BigAddFrom(a, b, i + 1, (Limb(a, i) + Limb(b, i) + carry) \div Base)
AddLimbs(a, b) == BigAddFrom(a, b, 1, 0)
BigAdd(a, b) == Call2(AddLimbs, a, b)

RECURSIVE BigSubFrom(_, _, _, _)
BigSubFrom(a, b, i, borrow) ==
    IF i > Len(a) THEN <<>>
    ELSE <<(Limb(a, i) - Limb(b, i) - borrow + Base) % Base>>
             \o BigSubFrom(a, b, i + 1, IF Limb(a, i) - Limb(b, i) - borrow < 0 THEN 1 ELSE 0)
SubLimbs(a, b) == BigTrim(BigSubFrom(a, b, 1, 0))
BigSub(a, b) == Call2(SubLimbs, a, b)

RECURSIVE BigLessFrom(_, _, _)
BigLessFrom(a, b, i) ==
    IF i = 0 THEN FALSE
    ELSE IF Limb(a, i) # Limb(b, i) THEN Limb(a, i) < Limb(b, i)
    ELSE BigLessFrom(a, b, i - 1)
LessLimbs(a, b) == BigLessFrom(a, b, Max(Len(a), Len(b)))
BigLess(a, b) == \E x \in {a}, y \in {b} : LessLimbs(x, y)

RECURSIVE BigScaleFrom(_, _, _, _)
BigScaleFrom(a, d, i, carry) ==
    IF i > Len(a) THEN (IF carry = 0 THEN <<>> ELSE <<carry>>)
    ELSE <<(a[i] * d + carry) % Base>>
             \o BigScaleFrom(a, d, i + 1, (a[i] * d + carry) \div Base)

RECURSIVE BigMulFrom(_, _, _)
BigMulFrom(a, b, i) ==
    IF i > Len(b) THEN <<>>
    ELSE BigAdd(BigScaleFrom(a, b[i], 1, 0), <<0>> \o BigMulFrom(a, b, i + 1))
MulLimbs(a, b) == BigTrim(BigMulFrom(a, b, 1))
BigMul(a, b) == Call2(MulLimbs, a, b)

ShlLimbs(a, k) ==
    BigTrim([i \in 1..(k \div LimbBits) |-> 0] \o BigScaleFrom(a, Pow2(k % LimbBits), 1, 0))
BigShl(a, k) == Call2(ShlLimbs, a, k)

ShrLimbs(s, p) ==
    BigTrim([i \in DOMAIN s |-> s[i] \div p + (Limb(s, i + 1) % p) * (Base \div p)])
ShrBits(a, k) == ShrLimbs(SubSeq(a, k \div LimbBits + 1, Len(a)), Pow2(k % LimbBits))
BigShr(a, k) == Call2(ShrBits, a, k)

RECURSIVE BitsOf(_)
BitsOf(n) == IF n = 0 THEN 0 ELSE 1 + BitsOf(n \div 2)
TopBits(t) == IF t = <<>> THEN 0 ELSE (Len(t) - 1) * LimbBits + BitsOf(t[Len(t)])
BitLen(a) == Call1(TopBits, BigTrim(a))

BitAt(a, bit) == (Limb(a, (bit - 1) \div LimbBits + 1) \div Pow2((bit - 1) % LimbBits)) % 2
IsOdd(a) == Limb(a, 1) % 2 = 1

\* the largest digit whose product with d is at most r, for r < d * Base: the
\* bits of the digit tried from the top
RECURSIVE DigitFrom(_, _, _, _)
DigitFrom(r, d, digit, bit) ==
    IF bit = 0 THEN digit
    ELSE IF BigLess(r, BigScaleFrom(d, digit + bit, 1, 0))
    THEN DigitFrom(r, d, digit, bit \div 2)
    ELSE DigitFrom(r, d, digit + bit, bit \div 2)

\* <<quotient, remainder>> of n by d: long division, the limbs of n brought
\* down from the top; position 1 is the top limb
RECURSIVE BigDivFrom(_, _, _, _)
DivDigit(n, d, i, r, digit) ==
    CHOOSE result \in {<<Append(rest[1], digit), rest[2]>> :
                           rest \in {BigDivFrom(n, d, i + 1,
                                                BigSub(r, BigScaleFrom(d, digit, 1, 0)))}} : TRUE
DivLimbAt(n, d, i, r) ==
    CHOOSE result \in {DivDigit(n, d, i, r, digit) :
                           digit \in {DigitFrom(r, d, 0, Base \div 2)}} : TRUE
BigDivFrom(n, d, i, rem) ==
    IF i > Len(n) THEN <<<<>>, rem>>
    ELSE CHOOSE result \in {DivLimbAt(n, d, i, r) :
                               r \in {BigTrim(<<n[Len(n) + 1 - i]>> \o rem)}} : TRUE
DivLimbs(n, d) == Call1(LAMBDA qr : <<BigTrim(qr[1]), qr[2]>>, BigDivFrom(n, d, 1, <<>>))
BigDivMod(n, d) == Call2(DivLimbs, n, d)

\* <<quotient, remainder>> of n by a number d below Base, limb by limb from the top
RECURSIVE BigDivIntFrom(_, _, _, _)
DivLimb(n, d, i, cur) ==
    CHOOSE result \in {<<Append(rest[1], cur \div d), rest[2]>> :
                           rest \in {BigDivIntFrom(n, d, i + 1, cur % d)}} : TRUE
BigDivIntFrom(n, d, i, rem) ==
    IF i > Len(n) THEN <<<<>>, rem>>
    ELSE CHOOSE result \in {DivLimb(n, d, i, cur) : cur \in {rem * Base + n[Len(n) + 1 - i]}} : TRUE
DivInt(n, d) == Call1(LAMBDA qr : <<BigTrim(qr[1]), qr[2]>>, BigDivIntFrom(n, d, 1, 0))
BigDivInt(n, d) == Call2(DivInt, n, d)

\* floor of the square root, by Newton's iteration from a power of two above it
RECURSIVE BigSqrtFrom(_, _)
SqrtNext(n, x, y) == IF BigLess(y, x) THEN BigSqrtFrom(n, y) ELSE x
BigSqrtFrom(n, x) ==
    CHOOSE result \in {SqrtNext(n, x, y) :
                           y \in {BigShr(BigAdd(x, BigDivMod(n, x)[1]), 1)}} : TRUE
SqrtLimbs(n) == IF n = <<>> THEN <<>> ELSE BigSqrtFrom(n, BigShl(<<1>>, (BitLen(n) + 1) \div 2))
BigSqrt(n) == Call1(SqrtLimbs, BigTrim(n))

(* Python floats: IEEE 754 binary64, here the numbers >= 0 that stay far from
   the ends of the exponent range.  A float is m * 2^e with m < 2^53; every
   operation gives the exact result rounded to the nearest float, ties to the
   even mantissa. *)
MantissaBits == 52 + 1
Double(m, e) == [m |-> BigTrim(m), e |-> e]
FZero == Double(<<>>, 0)
FInt(n) == Double(IF n = 0 THEN <<>> ELSE <<n>>, 0)

\* round to nearest, ties to even; inexact: the true value is above n * 2^e
RoundUp(low, half, inexact, q) == BigLess(half, low) \/ (low = half /\ (inexact \/ IsOdd(q)))
RoundBy(n, e, inexact, s, q) ==
    IF RoundUp(BigSub(n, BigShl(q, s)), BigShl(<<1>>, s - 1), inexact, q)
    THEN Double(BigAdd(q, <<1>>), e + s)
    ELSE Double(q, e + s)
RoundAt(n, e, inexact, s) ==
    IF s <= 0 THEN Double(n, e)
    ELSE CHOOSE result \in {RoundBy(n, e, inexact, s, q) : q \in {BigShr(n, s)}} : TRUE
FRound(n, e, inexact) ==
    CHOOSE result \in {RoundAt(x, e, inexact, BitLen(x) - MantissaBits) : x \in {n}} : TRUE

FMulOf(x, y) == IF x.m = <<>> \/ y.m = <<>> THEN FZero ELSE FRound(BigMul(x.m, y.m), x.e + y.e, FALSE)
FAddOf(x, y) ==
    IF x.m = <<>> THEN y ELSE IF y.m = <<>> THEN x
    ELSE FRound(BigAdd(BigShl(x.m, x.e - Min(x.e, y.e)), BigShl(y.m, y.e - Min(x.e, y.e))),
                Min(x.e, y.e), FALSE)
DivBy(x, y, k, qr) == FRound(qr[1], x.e - y.e - k, qr[2] # <<>>)
DivAt(x, y, k) == Call1(LAMBDA qr : DivBy(x, y, k, qr), BigDivMod(BigShl(x.m, k), y.m))
FDivOf(x, y) ==
    IF x.m = <<>> THEN FZero ELSE DivAt(x, y, Max(0, MantissaBits + 3 + BitLen(y.m) - BitLen(x.m)))
SqrtBy(n, e, s) == FRound(s, e \div 2, BigMul(s, s) # n)
SqrtOf(n, e) == Call1(LAMBDA s : SqrtBy(n, e, s), BigSqrt(n))
SqrtAt(x, k) == Call1(LAMBDA n : SqrtOf(n, x.e - k), BigShl(x.m, k))
DivIntBy(x, d, k, qr) == FRound(qr[1], x.e - k, qr[2] # 0)
DivIntAt(x, d, k) == Call1(LAMBDA qr : DivIntBy(x, d, k, qr), BigDivInt(BigShl(x.m, k), d))
FDivIntOf(x, d) ==
    IF x.m = <<>> THEN FZero ELSE DivIntAt(x, d, Max(0, MantissaBits + 3 + BitsOf(d) - BitLen(x.m)))
FSqrtOf(x) ==
    IF x.m = <<>> THEN FZero
    ELSE SqrtAt(x, Max(0, 2 * MantissaBits + 4 - BitLen(x.m)) + ((x.e - Max(0, 2 * MantissaBits + 4 - BitLen(x.m))) % 2))
FMul(x, y) == Call2(FMulOf, x, y)
FAdd(x, y) == Call2(FAddOf, x, y)
FDiv(x, y) == Call2(FDivOf, x, y)
FSqrt(x) == Call1(FSqrtOf, x)
FDivInt(x, d) == Call2(FDivIntOf, x, d)
FLessOf(x, y) ==
    IF y.m = <<>> THEN FALSE ELSE IF x.m = <<>> THEN TRUE
    ELSE BigLess(BigShl(x.m, x.e - Min(x.e, y.e)), BigShl(y.m, y.e - Min(x.e, y.e)))

FLess(x, y) == \E a \in {x}, b \in {y} : FLessOf(a, b)

RECURSIVE FSumFrom(_, _, _)
FSumFrom(s, i, acc) == IF i > Len(s) THEN acc ELSE FSumFrom(s, i + 1, FAdd(acc, s[i]))
FSum(s) == FSumFrom(s, 1, FZero)

FOne == FInt(1)

----------------------------------------------------------------------------
(* Coherence *)

INTENT_VECTORS ==
    [ask      |-> <<10, 5, 0, 0, 0, 2>>,
     tell     |-> <<5, 10, 0, 0, 1, 2>>,
     propose  |-> <<1, 1, 10, 6, 0, 3>>,
     confirm  |-> <<0, 0, 6, 10, 0, 1>>,
     notify   |-> <<0, 4, 0, 0, 10, 0>>,
     sync     |-> <<2, 4, 1, 0, 8, 3>>,
     plan     |-> <<3, 3, 5, 3, 0, 10>>,
     agree    |-> <<0, 1, 6, 9, 0, 1>>,
     disagree |-> <<2, 2, 4, 7, 0, 2>>,
     reflect  |-> <<4, 6, 1, 0, 0, 8>>]

\* INTENT_VECTORS.get(intent, INTENT_VECTORS["tell"])
IntentVector(intent) ==
    IF intent \in DOMAIN INTENT_VECTORS THEN INTENT_VECTORS[intent]
    ELSE INTENT_VECTORS["tell"]

_cosine_similarity(vec1, vec2) ==
    LET dot  == SumSeq([i \in 1..Min(Len(vec1), Len(vec2)) |-> vec1[i] * vec2[i]])
        sq1  == SumSeq([i \in DOMAIN vec1 |-> vec1[i] * vec1[i]])
        sq2  == SumSeq([i \in DOMAIN vec2 |-> vec2[i] * vec2[i]])
    IN IF sq1 = 0 \/ sq2 = 0 THEN 0
       ELSE (dot * 100 * Scale) \div ISqrt(sq1 * sq2 * Scale)

\* the variance of values carried with two decimals, as a fixed-point number
_variance(values) ==
    IF values = <<>> THEN 0
    ELSE LET n  == Len(values)
             s  == SumSeq(values)
             s2 == SumSeq([i \in DOMAIN values |-> values[i] * values[i]])
         IN (n * s2 - s * s) \div (n * n)

HasPad(m) == m.lce.pad # None
\* m.lce.meaning and m.lce.meaning.topic: a topic that is not the empty string
HasTopic(m) == m.lce.topic # None /\ m.lce.topic[1] # ""

_intent_similarity(messages) ==
    IF Len(messages) < 2 THEN Scale
    ELSE LET sims == [i \in 1..(Len(messages) - 1) |->
                        _cosine_similarity(IntentVector(messages[i].lce.intent),
                                           IntentVector(messages[i + 1].lce.intent))]
         IN Mean(sims)

\* an affect stability that takes a message without a PAD for one at rest
StabilityOverAllMessages(messages) ==
    LET pads == [i \in DOMAIN messages |->
                    IF HasPad(messages[i]) THEN messages[i].lce.pad[1] ELSE <<0, 0, 0>>]
    IN IF Len(pads) < 2 THEN Scale
       ELSE LET variances == [d \in 1..3 |-> _variance([i \in DOMAIN pads |-> pads[i][d]])]
                avg_variance == SumSeq(variances) \div 3
            IN ExpNeg(avg_variance * 5)

_affect_stability(messages) ==
    LET withPad == SelectSeq(messages, HasPad)
        pads == [i \in DOMAIN withPad |-> withPad[i].lce.pad[1]]
    IN IF Len(pads) < 2 THEN Scale
       ELSE LET variances == [d \in 1..3 |-> _variance([i \in DOMAIN pads |-> pads[i][d]])]
                avg_variance == SumSeq(variances) \div 3
            IN ExpNeg(avg_variance * 5)

TopicsOf(messages) ==
    LET withTopic == SelectSeq(messages, HasTopic)
    IN [i \in DOMAIN withTopic |-> withTopic[i].lce.topic[1]]

\* an alignment that divides by the number of topics, repeated ones included
AlignmentByCount(messages) ==
    LET topics == TopicsOf(messages)
    IN IF Len(topics) < 2 THEN Scale
       ELSE Scale \div Len(topics)

_semantic_alignment(messages) ==
    LET topics == TopicsOf(messages)
    IN IF Len(topics) < 2 THEN Scale
       ELSE Scale \div Cardinality(Range(topics))

CoherenceResult(o, i, a, s) ==
    [overall |-> o, intent_similarity |-> i, affect_stability |-> a, semantic_alignment |-> s]

\* an overall score that weighs the three components equally
EqualWeights(intent_similarity, affect_stability, semantic_alignment) ==
    Max(0, Min(Scale, (intent_similarity + affect_stability + semantic_alignment) \div 3))

\* the weighted sum of the three components, clamped to [0, 1]
Overall(intent_similarity, affect_stability, semantic_alignment) ==
    Max(0, Min(Scale, (4 * intent_similarity + 3 * affect_stability
                          + 3 * semantic_alignment) \div 10))

Weighted(intent_similarity, affect_stability, semantic_alignment) ==
    CoherenceResult(Overall(intent_similarity, affect_stability, semantic_alignment),
                    intent_similarity, affect_stability, semantic_alignment)

WindowCoherence(window) ==
    Weighted(_intent_similarity(window), _affect_stability(window),
             _semantic_alignment(window))

calculate_coherence(messages) ==
    IF Len(messages) < 2 THEN CoherenceResult(Scale, Scale, Scale, Scale)
    ELSE WindowCoherence(SliceLast(messages, coherence_window))

----------------------------------------------------------------------------
(* Envelopes (LCE) and the values the operations take *)

LCE(intent, pad, topic) == [intent |-> intent, pad |-> pad, topic |-> topic]

PadHigh == <<90, 90, 90>>
PadLow == <<-90, -90, -90>>

AskA == LCE("ask", Some(PadHigh), Some("A"))
PlanB == LCE("plan", Some(PadLow), Some("B"))
SyncC == LCE("sync", None, Some("C"))
NotifyD == LCE("notify", None, Some("D"))
TellPlain == LCE("tell", None, None)
\* an envelope whose meaning has the empty string as topic
TellEmptyTopic == LCE("tell", None, Some(""))

BasicEnvelopes == {AskA, PlanB}
Envelopes == {AskA, PlanB, SyncC, NotifyD, TellPlain}

LSSMessage(lce, payload, timestamp) ==
    [lce |-> lce, payload |-> payload, timestamp |-> timestamp]

----------------------------------------------------------------------------
(* Intent similarity in floats *)

\* a literal of INTENT_VECTORS, given in tenths, as the float Python reads
Tenths(n) == FDivInt(FInt(n), 10)
FloatVector(vec) == [i \in DOMAIN vec |-> Tenths(vec[i])]

\* sum(a * b for a, b in zip(vec1, vec2)): the products added from the left
Dot(vec1, vec2) == FSum([i \in 1..Min(Len(vec1), Len(vec2)) |-> FMul(vec1[i], vec2[i])])

\* _cosine_similarity (589-595) on floats: dot / (mag1 * mag2), the magnitudes
\* being sum(a * a) ** 0.5
CosineOf(dot, mag1, mag2) ==
    IF mag1 = FZero \/ mag2 = FZero THEN FZero ELSE FDiv(dot, FMul(mag1, mag2))
CosineSimilarity(vec1, vec2) ==
    CHOOSE result \in {CosineOf(dot, mag1, mag2) :
                           dot \in {Dot(vec1, vec2)},
                           mag1 \in {FSqrt(Dot(vec1, vec1))},
                           mag2 \in {FSqrt(Dot(vec2, vec2))}} : TRUE

\* the intents of the envelopes whose scores are computed in floats, and the
\* cosine similarity of their vectors
CoherenceIntents == {"ask", "plan", "tell"}
CosineOfIntents ==
    [a \in CoherenceIntents |-> [b \in CoherenceIntents |->
        CosineSimilarity(FloatVector(IntentVector(a)), FloatVector(IntentVector(b)))]]

\* _intent_similarity (505-519) on floats: the mean of the similarities of
\* consecutive messages
IntentSimilarity(messages) ==
    IF Len(messages) < 2 THEN FOne
    ELSE FDivInt(FSum([i \in 1..(Len(messages) - 1) |->
                         CosineOfIntents[messages[i].lce.intent][messages[i + 1].lce.intent]]),
                 Len(messages) - 1)

----------------------------------------------------------------------------
(* Dictionaries *)

EmptyMap == [x \in {} |-> x]
Put(d, k, v) == [x \in (DOMAIN d) \cup {k} |-> IF x = k THEN v ELSE d[x]]
Drop(d, ks) == [x \in (DOMAIN d) \ ks |-> d[x]]
Get(d, k) == IF k \in DOMAIN d THEN Some(d[k]) ELSE None

\* a Python value given with its type
Bytes(content) == [type |-> "bytes", val |-> content]
Str(content) == [type |-> "str", val |-> content]
Map(content) == [type |-> "map", val |-> content]
Array(items) == [type |-> "array", val |-> items]

\* no call made yet on either of the two LSS
NoTwin ==
    [memory |-> EmptyMap, redis |-> EmptyMap, op |-> "none", thread |-> "",
     returned |-> [memory |-> None, redis |-> None], ncalls |-> 0]

----------------------------------------------------------------------------
(* Sessions *)

\* LSSSession(...) as store() builds it for an unknown thread
NewSession(thread_id, t) ==
    [thread_id |-> thread_id,
     messages  |-> <<>>,
     coherence |-> Scale,
     metrics   |-> [coherence          |-> CoherenceResult(Scale, Scale, Scale, Scale),
                    previous_coherence |-> None,
                    drift_events       |-> <<>>,
                    updated_at         |-> t],
     metadata  |-> [created_at |-> t, updated_at |-> t, message_count |-> 0]]

\* the dict the dict-based store() builds for an unknown thread
NewDictSession(thread_id, t) ==
    [thread_id |-> thread_id, messages |-> <<>>, coherence |-> Scale,
     created_at |-> t, updated_at |-> t]

DriftEvent(thread_id, type, severity, timestamp, details) ==
    [thread_id |-> thread_id, type |-> type, severity |-> severity,
     timestamp |-> timestamp, details |-> details]

\* the time of the session's last update, as the eviction code reads it
UpdatedAt(session) ==
    IF impl = "dict" THEN session.updated_at ELSE session.metadata.updated_at

----------------------------------------------------------------------------
(* Drift detection *)

\* _detect_drift looking for a topic shift before it looks for a coherence drop
TopicShiftFirst(session, coherence, timestamp) ==
    LET previous == session.metrics.coherence
        drop == previous.overall - coherence.overall
        topics == TopicsOf(SliceLast(session.messages, topic_shift_window))
        unique == Cardinality(Range(topics))
    IN IF Len(topics) >= 3 /\ unique >= Min(Len(topics), 3)
       THEN Some(DriftEvent(session.thread_id, "topic_shift",
                            IF unique > 3 THEN "high" ELSE "medium",
                            timestamp,
                            [window |-> topics, unique_topics |-> unique]))
       ELSE IF coherence.overall < drift_min_coherence /\ drop >= drift_drop_threshold
       THEN Some(DriftEvent(session.thread_id, "coherence_drop",
                            IF drop > 4000 THEN "high"
                            ELSE IF drop > 2500 THEN "medium" ELSE "low",
                            timestamp,
                            [previous |-> previous.overall, current |-> coherence.overall]))
       ELSE None

\* _detect_drift reporting every drop of drift_drop_threshold, whatever the new level
DropWithoutFloor(session, coherence, timestamp) ==
    LET previous == session.metrics.coherence
        drop == previous.overall - coherence.overall
        topics == TopicsOf(SliceLast(session.messages, topic_shift_window))
        unique == Cardinality(Range(topics))
    IN IF drop >= drift_drop_threshold
       THEN Some(DriftEvent(session.thread_id, "coherence_drop",
                            IF drop > 4000 THEN "high"
                            ELSE IF drop > 2500 THEN "medium" ELSE "low",
                            timestamp,
                            [previous |-> previous.overall, current |-> coherence.overall]))
       ELSE IF Len(topics) >= 3 /\ unique >= Min(Len(topics), 3)
       THEN Some(DriftEvent(session.thread_id, "topic_shift",
                            IF unique > 3 THEN "high" ELSE "medium",
                            timestamp,
                            [window |-> topics, unique_topics |-> unique]))
       ELSE None

\* _detect_drift reading the topics of the whole history, not of the last K messages
TopicsOfWholeHistory(session, coherence, timestamp) ==
    LET previous == session.metrics.coherence
        drop == previous.overall - coherence.overall
        topics == TopicsOf(session.messages)
        unique == Cardinality(Range(topics))
    IN IF coherence.overall < drift_min_coherence /\ drop >= drift_drop_threshold
       THEN Some(DriftEvent(session.thread_id, "coherence_drop",
                            IF drop > 4000 THEN "high"
                            ELSE IF drop > 2500 THEN "medium" ELSE "low",
                            timestamp,
                            [previous |-> previous.overall, current |-> coherence.overall]))
       ELSE IF Len(topics) >= 3 /\ unique >= Min(Len(topics), 3)
       THEN Some(DriftEvent(session.thread_id, "topic_shift",
                            IF unique > 3 THEN "high" ELSE "medium",
                            timestamp,
                            [window |-> topics, unique_topics |-> unique]))
       ELSE None

_detect_drift(session, coherence, timestamp) ==
    LET previous == session.metrics.coherence
        drop == previous.overall - coherence.overall
        topics == TopicsOf(SliceLast(session.messages, topic_shift_window))
        unique == Cardinality(Range(topics))
    IN IF coherence.overall < drift_min_coherence /\ drop >= drift_drop_threshold
       THEN Some(DriftEvent(session.thread_id, "coherence_drop",
                            IF drop > 4000 THEN "high"
                            ELSE IF drop > 2500 THEN "medium" ELSE "low",
                            timestamp,
                            [previous |-> previous.overall, current |-> coherence.overall]))
       ELSE IF Len(topics) >= 3 /\ unique >= Min(Len(topics), 3)
       THEN Some(DriftEvent(session.thread_id, "topic_shift",
                            IF unique > 3 THEN "high" ELSE "medium",
                            timestamp,
                            [window |-> topics, unique_topics |-> unique]))
       ELSE None

----------------------------------------------------------------------------
(* The steps of store() *)

\* append the message, trim to max_messages
AppendTrim(messages, message) ==
    LET appended == Append(messages, message)
    IN IF Len(appended) > max_messages THEN SliceLast(appended, max_messages)
       ELSE appended

\* lpi 378-383, lri 136-141: append, trim, message_count, updated_at
AppendMessage(session, message, t) ==
    LET msgs == AppendTrim(session.messages, message)
    IN [session EXCEPT !.messages = msgs,
                       !.metadata.message_count = Len(msgs),
                       !.metadata.updated_at = t]

\* a recomputation from the first message on
RecomputeFromOne(session) == session.metadata.message_count >= 1

\* whether store() recomputes coherence for the session
ShouldRecompute(session) == session.metadata.message_count >= 2

\* a metric update that keeps the new coherence as the previous one too
RecordCoherenceTwice(session, coherence, t) ==
    [session EXCEPT !.metrics.previous_coherence = Some(coherence),
                    !.metrics.coherence = coherence,
                    !.metrics.updated_at = t,
                    !.coherence = coherence.overall]

\* lpi 385-398, lri 146-157 without the emit: the metric update of store();
\* yields the session and the drift event, if any
\* lpi 389-392, lri 150-153: the new coherence takes the place of the old one
RecordCoherence(session, coherence, t) ==
    [session EXCEPT !.metrics.previous_coherence = Some(session.metrics.coherence),
                    !.metrics.coherence = coherence,
                    !.metrics.updated_at = t,
                    !.coherence = coherence.overall]

\* lpi 394-395, lri 155-156: the drift event, if any, joins the session's events
\* (at_emit: the session's events when _emit is called, line 396)
RecordDrift(session, drift_event) ==
    [session |-> IF drift_event # None
                 THEN [session EXCEPT !.metrics.drift_events = Append(@, drift_event[1])]
                 ELSE session,
     recomputed |-> TRUE,
     event |-> drift_event,
     at_emit |-> IF drift_event # None
                 THEN Some(Append(session.metrics.drift_events, drift_event[1]))
                 ELSE None]

\* lpi 386-395, lri 147-156 for a coherence already computed
Recompute(session, coherence, t) ==
    RecordDrift(RecordCoherence(session, coherence, t), _detect_drift(session, coherence, t))

UpdateSessionMetrics(session, t) ==
    IF ShouldRecompute(session)
    THEN Recompute(session, calculate_coherence(session.messages), t)
    ELSE [session |-> [session EXCEPT !.metrics.updated_at = t],
          recomputed |-> FALSE,
          event |-> None,
          at_emit |-> None]

\* an _emit that walks the listeners from the last registered to the first
EmitReversed(payload) ==
    [i \in DOMAIN listeners |->
        [listener |-> listeners[Len(listeners) + 1 - i], payload |-> payload]]

\* _emit("drift", payload): the listeners called, in order
_emit(payload) == [i \in DOMAIN listeners |-> [listener |-> listeners[i], payload |-> payload]]

----------------------------------------------------------------------------
(* Storage *)

\* a cleanup pass that already drops the entries whose age equals the TTL
ExpiredAtTtl(store, t, ttl) == {k \in DOMAIN store : t - UpdatedAt(store[k]) >= ttl}

\* the entries a cleanup pass at time t drops: InMemorySessionStorage.cleanup,
\* LSS._cleanup_expired, LSS.cleanup_expired
Expired(store, t, ttl) == {k \in DOMAIN store : t - UpdatedAt(store[k]) > ttl}

\* datetime.isoformat() of a time with a zone, and _parse_datetime (318-324), which
\* reads it back
isoformat(t) == [isoformat |-> t]
_parse_datetime(value) == value.isoformat

\* a datetime a caller put into a payload or into the details of an event
DateTime(t) == [type |-> "datetime", val |-> t]

\* _json_default (312-315): what json.dumps writes for a value JSON has no form for
_json_default(obj) ==
    IF obj.type = "datetime" THEN Str(isoformat(obj.val)) ELSE Str([repr |-> obj])

\* json.loads(json.dumps(value, default=_json_default)) for a caller's value
Reloaded(value) == IF value.type = "str" THEN value ELSE _json_default(value)

\* the keys of the details _detect_drift writes: floats, an int and a list of strings
DriftDetailKeys == {"previous", "current", "window", "unique_topics"}

\* json.loads(json.dumps(data, default=_json_default)) for the dict of a session
Jsonified(data) ==
    [data EXCEPT
       !.messages = [i \in DOMAIN data.messages |->
                       [data.messages[i] EXCEPT
                          !.payload = IF data.messages[i].payload = None THEN None
                                      ELSE Some(Reloaded(data.messages[i].payload[1]))]],
       !.metrics.drift_events = [i \in DOMAIN data.metrics.drift_events |->
                       [data.metrics.drift_events[i] EXCEPT
                          !.details = [k \in DOMAIN data.metrics.drift_events[i].details |->
                                         IF k \in DriftDetailKeys
                                         THEN data.metrics.drift_events[i].details[k]
                                         ELSE Reloaded(data.metrics.drift_events[i].details[k])]]]]

\* session_to_dict (202-248)
session_to_dict(session) ==
    [thread_id |-> session.thread_id,
     coherence |-> session.coherence,
     messages  |-> [i \in DOMAIN session.messages |->
                      [lce |-> session.messages[i].lce,
                       payload |-> session.messages[i].payload,
                       timestamp |-> isoformat(session.messages[i].timestamp)]],
     metrics   |-> [coherence |-> session.metrics.coherence,
                    previous_coherence |-> session.metrics.previous_coherence,
                    drift_events |-> [i \in DOMAIN session.metrics.drift_events |->
                        LET event == session.metrics.drift_events[i]
                        IN [thread_id |-> event.thread_id, type |-> event.type,
                            severity |-> event.severity,
                            timestamp |-> isoformat(event.timestamp),
                            details |-> event.details]],
                    updated_at |-> isoformat(session.metrics.updated_at)],
     metadata  |-> [created_at |-> isoformat(session.metadata.created_at),
                    updated_at |-> isoformat(session.metadata.updated_at),
                    message_count |-> session.metadata.message_count]]

\* session_from_dict (251-309)
session_from_dict(data) ==
    [thread_id |-> data.thread_id,
     messages  |-> [i \in DOMAIN data.messages |->
                      LSSMessage(data.messages[i].lce, data.messages[i].payload,
                                 _parse_datetime(data.messages[i].timestamp))],
     coherence |-> data.coherence,
     metrics   |-> [coherence |-> data.metrics.coherence,
                    previous_coherence |-> data.metrics.previous_coherence,
                    drift_events |-> [i \in DOMAIN data.metrics.drift_events |->
                        LET event == data.metrics.drift_events[i]
                        IN DriftEvent(event.thread_id, event.type, event.severity,
                                      _parse_datetime(event.timestamp), event.details)],
                    updated_at |-> _parse_datetime(data.metrics.updated_at)],
     metadata  |-> [created_at |-> _parse_datetime(data.metadata.created_at),
                    updated_at |-> _parse_datetime(data.metadata.updated_at),
                    message_count |-> data.metadata.message_count]]

\* storage.cleanup(now, ttl_ms) of the storage given: a scan in memory (132-136),
\* nothing on Redis (194-196)
storage_cleanup(storage, store, t, ttl) ==
    IF storage = "redis" THEN store ELSE Drop(store, Expired(store, t, ttl))

\* storage.load(thread_id) at time t: the object held in memory (117-118); on Redis
\* (162-169) the text read back, a key set with px being gone once it expired
storage_load(storage, store, thread_id, t) ==
    IF storage = "redis"
    THEN IF thread_id \in DOMAIN store /\ t < store[thread_id].expires_at
         THEN Some(session_from_dict(store[thread_id].raw)) ELSE None
    ELSE Get(store, thread_id)

\* storage.save(session, ttl_ms) at time t: the object in memory (120-121), its JSON
\* text on Redis (171-173)
storage_save(storage, store, session, t, ttl) ==
    IF storage = "redis"
    THEN Put(store, session.thread_id,
             [raw |-> Jsonified(session_to_dict(session)), expires_at |-> t + ttl])
    ELSE Put(store, session.thread_id, session)

\* storage.delete(thread_id) (123-124, 175-176): the store left and the value returned
storage_delete(storage, store, thread_id, t) ==
    [store |-> Drop(store, {thread_id}),
     ret   |-> IF storage = "redis"
               THEN thread_id \in DOMAIN store /\ t < store[thread_id].expires_at
               ELSE thread_id \in DOMAIN store]

\* the same on the storage this LSS was built with
StorageCleanup(store, t, ttl) == storage_cleanup(backend, store, t, ttl)
StorageLoad(store, thread_id, t) == storage_load(backend, store, thread_id, t)
StorageSave(store, session, t, ttl) == storage_save(backend, store, session, t, ttl)
StorageDelete(store, thread_id, t) == storage_delete(backend, store, thread_id, t)

\* storage.load_all() at time t (the sessions, without their order)
StorageLoadAll(store, t) ==
    IF backend = "redis"
    THEN {session_from_dict(store[k].raw) : k \in {x \in DOMAIN store : t < store[x].expires_at}}
    ELSE {store[k] : k \in DOMAIN store}

----------------------------------------------------------------------------
(* store(), whole *)

\* what a store() call leaves: the store, and what the call did
Outcome(store, created, evicted, result) ==
    [store |-> store, created |-> created, evicted |-> evicted,
     recomputed |-> result.recomputed, event |-> result.event, at_emit |-> result.at_emit,
     delivered |-> IF result.event = None THEN <<>> ELSE _emit(result.event[1])]

\* lri 146-157: the metrics go to the session object, which may have left _sessions
Held(store, thread_id, created, evicted, result) ==
    Outcome(IF thread_id \in DOMAIN store THEN Put(store, thread_id, result.session) ELSE store,
            created, evicted, result)

\* lpi LSS.store (354-400) of an LSS over the storage given; the session is saved
\* (400) once the listeners have returned
lss_store(storage, store, thread_id, lce, payload, t) ==
    LET cleaned  == storage_cleanup(storage, store, t, session_ttl)
        loaded   == storage_load(storage, cleaned, thread_id, t)
        session  == IF loaded = None THEN NewSession(thread_id, t) ELSE loaded[1]
        appended == AppendMessage(session, LSSMessage(lce, payload, t), t)
        result   == UpdateSessionMetrics(appended, t)
    IN Outcome(storage_save(storage, cleaned, result.session, t, session_ttl),
               loaded = None, (DOMAIN store) \ (DOMAIN cleaned), result)

\* the same on the storage this LSS was built with
LpiStore(store, thread_id, lce, payload, t) ==
    lss_store(backend, store, thread_id, lce, payload, t)

\* lri LSS.store (114-157)
LriStore(store, thread_id, lce, payload, t) ==
    LET session  == IF thread_id \in DOMAIN store THEN store[thread_id]
                    ELSE NewSession(thread_id, t)
        appended == AppendMessage(session, LSSMessage(lce, payload, t), t)
        held     == Put(store, thread_id, appended)
        cleaned  == Drop(held, Expired(held, t, session_ttl))
    IN Held(cleaned, thread_id, thread_id \notin DOMAIN store,
            (DOMAIN held) \ (DOMAIN cleaned), UpdateSessionMetrics(appended, t))

\* dict-based LSS.store (63-91)
DictStore(store, thread_id, lce, payload, t) ==
    LET session  == IF thread_id \in DOMAIN store THEN store[thread_id]
                    ELSE NewDictSession(thread_id, t)
        msgs     == AppendTrim(session.messages, LSSMessage(lce, payload, t))
        appended == [session EXCEPT !.messages = msgs, !.updated_at = t]
    IN Outcome(Put(store, thread_id,
                   IF Len(msgs) >= 2
                   THEN [appended EXCEPT !.coherence = calculate_coherence(msgs).overall]
                   ELSE appended),
               thread_id \notin DOMAIN store, {},
               [recomputed |-> Len(msgs) >= 2, event |-> None, at_emit |-> None])

StoreOutcome(store, thread_id, lce, payload, t) ==
    IF impl = "lpi" THEN LpiStore(store, thread_id, lce, payload, t)
    ELSE IF impl = "lri" THEN LriStore(store, thread_id, lce, payload, t)
    ELSE DictStore(store, thread_id, lce, payload, t)

----------------------------------------------------------------------------
(* History variables *)

\* the last step taken: the operation, its thread, what it returned (if anything), the threads
\* whose sessions it evicted, and for a store() whether it created the session,
\* recomputed coherence, the event it produced and the listener calls it made
NoCall == [op |-> "init", thread |-> "", ret |-> None, evicted |-> {}, created |-> FALSE,
           recomputed |-> FALSE, event |-> None, at_emit |-> None, delivered |-> <<>>]
Returned(op, thread_id, ret) == [NoCall EXCEPT !.op = op, !.thread = thread_id, !.ret = ret]

\* the threads whose last store is older than the TTL at time t
Outlived(stored, t) == {k \in Threads : stored[k] # None /\ t - stored[k][1] > session_ttl}
Forget(stored, ks) == [k \in Threads |-> IF k \in ks THEN None ELSE stored[k]]

----------------------------------------------------------------------------
(* Operations of the API, each a single step *)

Store(thread_id, lce) ==
    /\ calls = <<>>
    /\ \E out \in {StoreOutcome(sessions, thread_id, lce, None, now)} :
          /\ sessions' = out.store
          /\ last' = [Returned("store", thread_id, None) EXCEPT
                         !.created = out.created, !.evicted = out.evicted,
                         !.recomputed = out.recomputed,
                         !.event = out.event, !.at_emit = out.at_emit,
                         !.delivered = out.delivered]
          /\ hist' = [k \in Threads |->
                         IF k = thread_id
                         THEN IF out.created THEN <<LSSMessage(lce, None, now)>>
                              ELSE Append(hist[k], LSSMessage(lce, None, now))
                         ELSE IF k \in DOMAIN out.store THEN hist[k] ELSE <<>>]
    /\ lastStored' = [Forget(lastStored, IF impl = "dict" THEN {}
                                         ELSE Outlived(lastStored, now) \ {thread_id})
                         EXCEPT ![thread_id] = Some(now)]
    /\ nstores' = nstores + 1
    /\ nupdates' = nupdates
    /\ UNCHANGED <<signing, ws, twin, config, listeners, now, inflight>>

\* get_session: lpi 402-405, lri 159-162, dict 93-95
get_session(thread_id) ==
    IF impl = "lpi" THEN StorageLoad(sessions, thread_id, now) ELSE Get(sessions, thread_id)

GetSession(thread_id) ==
    /\ calls = <<>>
    /\ last' = Returned("get_session", thread_id, get_session(thread_id))
    /\ UNCHANGED <<signing, ws, twin, config, sessions, listeners, now, inflight, hist, lastStored, nstores, nupdates>>

\* get_all_sessions: lpi 407-410, lri 164-167
get_all_sessions ==
    IF impl = "lpi" THEN StorageLoadAll(sessions, now) ELSE {sessions[k] : k \in DOMAIN sessions}

GetAllSessions ==
    /\ calls = <<>>
    /\ impl # "dict"
    /\ last' = Returned("get_all_sessions", "", Some(get_all_sessions))
    /\ UNCHANGED <<signing, ws, twin, config, sessions, listeners, now, inflight, hist, lastStored, nstores, nupdates>>

\* get_metrics: lpi 425-427, lri 182-184
get_metrics(thread_id) ==
    LET session == get_session(thread_id)
    IN IF session = None THEN None ELSE Some(session[1].metrics)

GetMetrics(thread_id) ==
    /\ calls = <<>>
    /\ impl # "dict"
    /\ last' = Returned("get_metrics", thread_id, get_metrics(thread_id))
    /\ UNCHANGED <<signing, ws, twin, config, sessions, listeners, now, inflight, hist, lastStored, nstores, nupdates>>

\* lpi 440-443, lri 199-202: a coherence given takes the place of the current one
GivenCoherence(session, coherence) ==
    IF coherence = None THEN session
    ELSE [session EXCEPT !.metrics.previous_coherence = Some(session.metrics.coherence),
                         !.metrics.coherence = coherence[1],
                         !.coherence = coherence[1].overall]

\* lpi 445-455: the events given, rebuilt with the thread id of the call;
\* lri 204-205: the list given, as it is
GivenEvents(session, thread_id, drift_events) ==
    IF drift_events = None THEN session
    ELSE [session EXCEPT !.metrics.drift_events =
             IF impl = "lpi"
             THEN [i \in DOMAIN drift_events[1] |->
                      LET event == drift_events[1][i]
                      IN DriftEvent(thread_id, event.type, event.severity,
                                    event.timestamp, event.details)]
             ELSE drift_events[1]]

\* the session update_metrics leaves (lpi 440-457, lri 199-207)
MetricsUpdated(session, thread_id, coherence, drift_events, t) ==
    [GivenEvents(GivenCoherence(session, coherence), thread_id, drift_events)
        EXCEPT !.metrics.updated_at = t]

\* lpi update_metrics (429-459) of an LSS over the storage given: the store left and
\* the value returned
lss_update_metrics(storage, store, thread_id, coherence, drift_events, t) ==
    LET loaded == storage_load(storage, store, thread_id, t)
    IN IF loaded = None THEN [store |-> store, ret |-> None]
       ELSE LET session == MetricsUpdated(loaded[1], thread_id, coherence, drift_events, t)
            IN [store |-> storage_save(storage, store, session, t, session_ttl),
                ret   |-> Some(session.metrics)]

\* update_metrics: lpi 429-459, lri 186-208; the store left and the value returned
update_metrics(store, thread_id, coherence, drift_events, t) ==
    IF impl = "lpi"
    THEN lss_update_metrics(backend, store, thread_id, coherence, drift_events, t)
    ELSE IF thread_id \notin DOMAIN store THEN [store |-> store, ret |-> None]
         ELSE [store |-> Put(store, thread_id,
                             MetricsUpdated(store[thread_id], thread_id, coherence,
                                            drift_events, t)),
               ret |-> Some(MetricsUpdated(store[thread_id], thread_id, coherence,
                                           drift_events, t).metrics)]

UpdateMetrics(thread_id, coherence, drift_events) ==
    /\ calls = <<>>
    /\ impl # "dict"
    /\ \E out \in {update_metrics(sessions, thread_id, coherence, drift_events, now)} :
          /\ sessions' = out.store
          /\ last' = Returned("update_metrics", thread_id, out.ret)
    /\ nupdates' = nupdates + 1
    /\ UNCHANGED <<signing, ws, twin, config, listeners, now, inflight, hist, lastStored, nstores>>

\* a delete_session that reports success whether or not the session existed
DeleteAlwaysTrue(store, thread_id) ==
    [store |-> Drop(store, {thread_id}), ret |-> TRUE]

\* delete_session: lpi 412-415, lri 169-172
delete_session(store, thread_id) ==
    IF impl = "lpi" THEN StorageDelete(store, thread_id, now)
    ELSE [store |-> Drop(store, {thread_id}), ret |-> thread_id \in DOMAIN store]

DeleteSession(thread_id) ==
    /\ calls = <<>>
    /\ impl # "dict"
    /\ LET out == delete_session(sessions, thread_id)
       IN /\ sessions' = out.store
          /\ last' = Returned("delete_session", thread_id, Some(out.ret))
    /\ lastStored' = Forget(lastStored, {thread_id})
    /\ hist' = [hist EXCEPT ![thread_id] = <<>>]
    /\ UNCHANGED <<signing, ws, twin, config, listeners, now, inflight, nstores, nupdates>>

\* clear: lpi 417-420 with InMemorySessionStorage.clear / RedisSessionStorage.clear, lri 174-177
Clear ==
    /\ calls = <<>>
    /\ impl # "dict"
    /\ sessions # EmptyMap
    /\ sessions' = EmptyMap
    /\ last' = Returned("clear", "", None)
    /\ lastStored' = Forget(lastStored, Threads)
    /\ hist' = [k \in Threads |-> <<>>]
    /\ UNCHANGED <<signing, ws, twin, config, listeners, now, inflight, nstores, nupdates>>

\* a cleanup pass on its own: InMemorySessionStorage.cleanup(now, ttl) (lpi 132-136),
\* cleanup_expired() of the dict-based LSS (202-216), which returns the number removed
cleanup_expired(store, t) ==
    LET expired == Expired(store, t, session_ttl)
    IN [store |-> Drop(store, expired), ret |-> Cardinality(expired), evicted |-> expired]

Cleanup ==
    /\ calls = <<>>
    /\ impl \in {"lpi", "dict"}
    /\ backend = "memory"
    /\ LET out == cleanup_expired(sessions, now)
       IN /\ sessions' = out.store
          /\ last' = [Returned("cleanup", "", IF impl = "dict" THEN Some(out.ret) ELSE None)
                         EXCEPT !.evicted = out.evicted]
          /\ hist' = [k \in Threads |-> IF k \in DOMAIN out.store THEN hist[k] ELSE <<>>]
    /\ lastStored' = Forget(lastStored, Outlived(lastStored, now))
    /\ UNCHANGED <<signing, ws, twin, config, listeners, now, inflight, nstores, nupdates>>

\* on("drift", callback): lpi 464-467, lri 211-214
On(callback) ==
    /\ calls = <<>>
    /\ impl # "dict"
    /\ Len(listeners) < MaxListeners
    /\ listeners' = Append(listeners, callback)
    /\ last' = Returned("on", "", None)
    /\ UNCHANGED <<signing, ws, twin, config, sessions, now, inflight, hist, lastStored, nstores, nupdates>>

\* list.remove(callback): the first occurrence goes
RemoveFirst(seq, x) ==
    LET i == CHOOSE j \in DOMAIN seq : seq[j] = x /\ \A h \in 1..(j - 1) : seq[h] # x
    IN SubSeq(seq, 1, i - 1) \o SubSeq(seq, i + 1, Len(seq))

\* what off() leaves of a list of listeners (lpi 472-478, lri 219-225): remove()
\* raises ValueError for a callback that is not in the list, and off() passes
off(list, callback) ==
    IF callback \in Range(list) THEN RemoveFirst(list, callback) ELSE list

\* off("drift", callback): lpi 469-478, lri 216-225
Off(callback) ==
    /\ calls = <<>>
    /\ impl # "dict"
    /\ listeners' = off(listeners, callback)
    /\ last' = Returned("off", "", None)
    /\ UNCHANGED <<signing, ws, twin, config, sessions, now, inflight, hist, lastStored, nstores, nupdates>>

\* time passes
Tick ==
    /\ now < MaxClock
    /\ now' = now + 1
    /\ last' = Returned("tick", "", None)
    /\ UNCHANGED <<signing, ws, twin, config, sessions, listeners, inflight, hist, lastStored, nstores, nupdates>>

----------------------------------------------------------------------------
(* The store used call by call, on the in-process stores *)

DefaultCoherenceWindow == 10
DefaultTopicShiftWindow == 5
SessionTtl == 1

Init ==
    /\ impl \in {"lpi", "lri", "dict"}
    /\ backend = "memory"
    /\ max_messages \in 0..MaxN
    /\ session_ttl = SessionTtl
    /\ coherence_window = DefaultCoherenceWindow
    /\ drift_min_coherence = (6 * Scale) \div 10
    /\ drift_drop_threshold = (2 * Scale) \div 10
    /\ topic_shift_window = DefaultTopicShiftWindow
    /\ sessions = EmptyMap
    /\ listeners = <<>>
    /\ now = 0
    /\ calls = <<>>
    /\ heap = EmptyMap
    /\ resident = EmptyMap
    /\ last = NoCall
    /\ wire = NoWire
    /\ verdict = NoVerdict
    /\ ws = NoConnection
    /\ twin = NoTwin
    /\ hist = [k \in Threads |-> <<>>]
    /\ lastStored = [k \in Threads |-> None]
    /\ nstores = 0
    /\ nupdates = 0

Next ==
    \/ \E thread_id \in Threads, lce \in BasicEnvelopes :
          nstores < MaxStores /\ Store(thread_id, lce)
    \/ \E thread_id \in Threads : GetSession(thread_id)
    \/ GetAllSessions
    \/ \E thread_id \in Threads : GetMetrics(thread_id)
    \/ \E thread_id \in Threads : DeleteSession(thread_id)
    \/ Clear
    \/ Cleanup
    \/ Tick

Spec == Init /\ [][Next]_vars

----------------------------------------------------------------------------
(* One conversation under drift detection, with listeners *)

DefaultMaxMessages == 1000
MaxDriftStores == 4

InitDrift ==
    /\ impl \in {"lpi", "lri"}
    /\ backend = "memory"
    /\ max_messages = DefaultMaxMessages
    /\ session_ttl = SessionTtl
    /\ coherence_window = DefaultCoherenceWindow
    /\ drift_min_coherence = (6 * Scale) \div 10
    /\ drift_drop_threshold = (2 * Scale) \div 10
    /\ topic_shift_window \in 1..MaxK
    /\ sessions = EmptyMap
    /\ listeners = <<>>
    /\ now = 0
    /\ calls = <<>>
    /\ heap = EmptyMap
    /\ resident = EmptyMap
    /\ last = NoCall
    /\ wire = NoWire
    /\ verdict = NoVerdict
    /\ ws = NoConnection
    /\ twin = NoTwin
    /\ hist = [k \in Threads |-> <<>>]
    /\ lastStored = [k \in Threads |-> None]
    /\ nstores = 0
    /\ nupdates = 0

NextDrift ==
    \/ \E lce \in Envelopes : nstores < MaxDriftStores /\ Store("t1", lce)
    \/ \E callback \in Callbacks : On(callback)
    \/ \E callback \in Callbacks : Off(callback)

SpecDrift == InitDrift /\ [][NextDrift]_vars

----------------------------------------------------------------------------
(* The coherence of a session's history, computed on request *)

MaxCoherenceStores == 3
MaxWindow == 3

CoherenceEnvelopes == {AskA, PlanB, TellPlain, TellEmptyTopic}

\* the intent_similarity of calculate_coherence (487-493) as a float
ExactIntentSimilarity(messages) ==
    IF Len(messages) < 2 THEN FOne
    ELSE IntentSimilarity(SliceLast(messages, coherence_window))

\* a call of calculate_coherence on the messages of a session: what it returns,
\* with the scores in fixed point, and its intent_similarity as the float it is
CalculateCoherence(thread_id) ==
    /\ thread_id \in DOMAIN sessions
    /\ verdict' = [op |-> "calculate_coherence",
                   messages |-> sessions[thread_id].messages,
                   result |-> calculate_coherence(sessions[thread_id].messages),
                   intent_similarity |-> ExactIntentSimilarity(sessions[thread_id].messages)]
    /\ UNCHANGED <<wire, ws, twin, config, sessions, listeners, now, inflight, last, hist, lastStored, nstores, nupdates>>

InitCoherence ==
    /\ impl \in {"lpi", "lri", "dict"}
    /\ backend = "memory"
    /\ max_messages = DefaultMaxMessages
    /\ session_ttl = SessionTtl
    /\ coherence_window \in 0..MaxWindow
    /\ drift_min_coherence = (6 * Scale) \div 10
    /\ drift_drop_threshold = (2 * Scale) \div 10
    /\ topic_shift_window = DefaultTopicShiftWindow
    /\ sessions = EmptyMap
    /\ listeners = <<>>
    /\ now = 0
    /\ calls = <<>>
    /\ heap = EmptyMap
    /\ resident = EmptyMap
    /\ last = NoCall
    /\ wire = NoWire
    /\ verdict = NoVerdict
    /\ ws = NoConnection
    /\ twin = NoTwin
    /\ hist = [k \in Threads |-> <<>>]
    /\ lastStored = [k \in Threads |-> None]
    /\ nstores = 0
    /\ nupdates = 0

NextCoherence ==
    \/ \E lce \in CoherenceEnvelopes : nstores < MaxCoherenceStores /\ Store("t1", lce)
    \/ CalculateCoherence("t1")

SpecCoherence == InitCoherence /\ [][NextCoherence]_vars

----------------------------------------------------------------------------
(* Sessions whose metrics the host program sets with update_metrics *)

MaxMetricStores == 3
MaxUpdates == 1

\* values a caller passes to update_metrics
HalfCoherence == CoherenceResult(Scale \div 2, Scale \div 2, Scale \div 2, Scale \div 2)
GivenEvent(thread_id) ==
    DriftEvent(thread_id, "topic_shift", "medium", 0, [window |-> <<>>, unique_topics |-> 0])
CoherenceArgs == {None, Some(HalfCoherence)}
EventArgs == {None, Some(<<>>)} \cup {Some(<<GivenEvent(k)>>) : k \in Threads}

InitMetrics ==
    /\ impl \in {"lpi", "lri"}
    /\ backend = "memory"
    /\ max_messages = DefaultMaxMessages
    /\ session_ttl = SessionTtl
    /\ coherence_window = DefaultCoherenceWindow
    /\ drift_min_coherence = (6 * Scale) \div 10
    /\ drift_drop_threshold = (2 * Scale) \div 10
    /\ topic_shift_window = DefaultTopicShiftWindow
    /\ sessions = EmptyMap
    /\ listeners = <<>>
    /\ now = 0
    /\ calls = <<>>
    /\ heap = EmptyMap
    /\ resident = EmptyMap
    /\ last = NoCall
    /\ wire = NoWire
    /\ verdict = NoVerdict
    /\ ws = NoConnection
    /\ twin = NoTwin
    /\ hist = [k \in Threads |-> <<>>]
    /\ lastStored = [k \in Threads |-> None]
    /\ nstores = 0
    /\ nupdates = 0

NextMetrics ==
    \/ \E thread_id \in Threads, lce \in BasicEnvelopes :
          nstores < MaxMetricStores /\ Store(thread_id, lce)
    \/ \E thread_id \in Threads, coherence \in CoherenceArgs, drift_events \in EventArgs :
          nupdates < MaxUpdates /\ UpdateMetrics(thread_id, coherence, drift_events)
    \/ Tick

SpecMetrics == InitMetrics /\ [][NextMetrics]_vars

----------------------------------------------------------------------------
(* Two LSS given the same calls, one over InMemorySessionStorage and one over
   RedisSessionStorage; the TTL is longer than the clock runs, so that no
   session expires on either. *)

MaxTwinCalls == 3

\* values a caller passes: a payload of bytes, events whose details hold a text or a
\* datetime
BytesPayload == Bytes(<<104>>)
CallerEvent(details) == DriftEvent("t1", "topic_shift", "medium", 0, details)
NotedEvent == CallerEvent([note |-> Str([text |-> "seen"])])
DatedEvent == CallerEvent([at |-> DateTime(0)])
TwinPayloads == {None, Some(BytesPayload)}
TwinEventArgs == {None, Some(<<NotedEvent>>), Some(<<DatedEvent>>)}

\* one call made on both LSS: the two stores left and the two values returned
Called(op, thread_id, memory, redis) ==
    [memory |-> memory.store, redis |-> redis.store, op |-> op, thread |-> thread_id,
     returned |-> [memory |-> memory.ret, redis |-> redis.ret],
     ncalls |-> twin.ncalls + 1]

Untwinned ==
    UNCHANGED <<signing, ws, config, sessions, listeners, now, inflight, last, hist,
                lastStored, nstores, nupdates>>

\* store() (354-400) returns nothing
TwinStore(thread_id, lce, payload) ==
    /\ twin.ncalls < MaxTwinCalls
    /\ twin' = Called("store", thread_id,
                      [store |-> lss_store("memory", twin.memory, thread_id, lce, payload,
                                           now).store,
                       ret   |-> None],
                      [store |-> lss_store("redis", twin.redis, thread_id, lce, payload,
                                           now).store,
                       ret   |-> None])
    /\ Untwinned

TwinUpdateMetrics(thread_id, coherence, drift_events) ==
    /\ twin.ncalls < MaxTwinCalls
    /\ twin' = Called("update_metrics", thread_id,
                      lss_update_metrics("memory", twin.memory, thread_id, coherence,
                                         drift_events, now),
                      lss_update_metrics("redis", twin.redis, thread_id, coherence,
                                         drift_events, now))
    /\ Untwinned

\* delete_session (412-415) is storage.delete
TwinDeleteSession(thread_id) ==
    /\ twin.ncalls < MaxTwinCalls
    /\ twin' = Called("delete_session", thread_id,
                      storage_delete("memory", twin.memory, thread_id, now),
                      storage_delete("redis", twin.redis, thread_id, now))
    /\ Untwinned

\* get_session (402-405) is storage.load
TwinGetSession(thread_id) ==
    /\ twin.ncalls < MaxTwinCalls
    /\ twin' = Called("get_session", thread_id,
                      [store |-> twin.memory,
                       ret   |-> storage_load("memory", twin.memory, thread_id, now)],
                      [store |-> twin.redis,
                       ret   |-> storage_load("redis", twin.redis, thread_id, now)])
    /\ Untwinned

InitTwin ==
    /\ impl = "lpi"
    /\ backend = "memory"
    /\ max_messages = DefaultMaxMessages
    /\ session_ttl = MaxClock + 1
    /\ coherence_window = DefaultCoherenceWindow
    /\ drift_min_coherence = (6 * Scale) \div 10
    /\ drift_drop_threshold = (2 * Scale) \div 10
    /\ topic_shift_window = DefaultTopicShiftWindow
    /\ sessions = EmptyMap
    /\ listeners = <<>>
    /\ now = 0
    /\ calls = <<>>
    /\ heap = EmptyMap
    /\ resident = EmptyMap
    /\ last = NoCall
    /\ wire = NoWire
    /\ verdict = NoVerdict
    /\ ws = NoConnection
    /\ twin = NoTwin
    /\ hist = [k \in Threads |-> <<>>]
    /\ lastStored = [k \in Threads |-> None]
    /\ nstores = 0
    /\ nupdates = 0

NextTwin ==
    \/ \E thread_id \in Threads, lce \in BasicEnvelopes, payload \in TwinPayloads :
          TwinStore(thread_id, lce, payload)
    \/ \E thread_id \in Threads, coherence \in CoherenceArgs, drift_events \in TwinEventArgs :
          TwinUpdateMetrics(thread_id, coherence, drift_events)
    \/ \E thread_id \in Threads : TwinDeleteSession(thread_id)
    \/ \E thread_id \in Threads : TwinGetSession(thread_id)
    \/ Tick

SpecTwin == InitTwin /\ [][NextTwin]_vars

----------------------------------------------------------------------------
(* store() of the storage-backed LSS, statement by statement (lpi 354-400).
   A call is a record: its arguments, the time it read, the statement it stands
   before, and the id of the session object it works on.  InMemorySessionStorage
   hands out the object it holds, so a call's writes to that object are writes
   to the store; RedisSessionStorage hands out and takes copies. *)

\* the statements a call can stand before
Running == {"cleanup", "load", "append", "metrics", "save"}

InFlight == {c \in DOMAIN calls : calls[c].pc \in Running}

\* the value of a session object: in the store if the store holds it, else on the heap
Holders(oid) == {k \in DOMAIN resident : resident[k] = oid}
Deref(oid) ==
    IF Holders(oid) # {} THEN sessions[CHOOSE k \in Holders(oid) : TRUE] ELSE heap[oid]

\* an assignment to fields of the object oid: the store and the heap afterwards
Write(oid, session) ==
    IF Holders(oid) # {}
    THEN [sessions |-> Put(sessions, CHOOSE k \in Holders(oid) : TRUE, session), heap |-> heap]
    ELSE [sessions |-> sessions, heap |-> Put(heap, oid, session)]

\* a store() that saves the session once the message is appended and again at
\* its end
StatementSavingEarly(c) ==
    LET call == calls[c]
    IN  CASE call.pc = "cleanup" -> [op |-> "cleanup", key |-> None]
          [] call.pc = "load"    -> [op |-> "load", key |-> Some(call.thread_id)]
          [] call.pc = "append"  -> [op |-> "save", key |-> Some(Deref(call.session[1]).thread_id)]
          [] call.pc = "metrics" -> [op |-> "write", key |-> Some(Deref(call.session[1]).thread_id)]
          [] call.pc = "save"    -> [op |-> "save", key |-> Some(Deref(call.session[1]).thread_id)]

\* what the statement a call stands before does: the method of self.storage it
\* calls and the key that call names (storage.save takes the key from the
\* session it is given), or a write to fields of the session
Statement(c) ==
    LET call == calls[c]
    IN  CASE call.pc = "cleanup" -> [op |-> "cleanup", key |-> None]
          [] call.pc = "load"    -> [op |-> "load", key |-> Some(call.thread_id)]
          [] call.pc \in {"append", "metrics"} ->
                 [op |-> "write", key |-> Some(Deref(call.session[1]).thread_id)]
          [] call.pc = "save"    -> [op |-> "save", key |-> Some(Deref(call.session[1]).thread_id)]

\* store() is entered: now is read (lpi 357)
BeginStore(thread_id, lce) ==
    /\ calls' = Append(calls, [thread_id |-> thread_id, lce |-> lce, t |-> now,
                               pc |-> "cleanup", session |-> None, before |-> sessions,
                               did |-> <<>>, told |-> None])
    /\ nstores' = nstores + 1
    /\ nupdates' = nupdates
    /\ UNCHANGED <<signing, ws, twin, config, sessions, listeners, now, heap, resident, last, hist, lastStored>>

\* self.storage.cleanup(now, self.session_ttl) (lpi 358): the objects dropped stay
\* with the calls that hold them
StepCleanup(c) ==
    /\ c \in DOMAIN calls /\ calls[c].pc = "cleanup"
    /\ \E cleaned \in {StorageCleanup(sessions, calls[c].t, session_ttl)} :
          /\ sessions' = cleaned
          /\ heap' = [oid \in (DOMAIN heap) \cup
                                 {resident[k] : k \in (DOMAIN resident) \ (DOMAIN cleaned)} |->
                         IF oid \in DOMAIN heap THEN heap[oid] ELSE Deref(oid)]
          /\ resident' = Drop(resident, (DOMAIN resident) \ (DOMAIN cleaned))
    /\ calls' = [calls EXCEPT ![c].pc = "load", ![c].did = Append(@, Statement(c))]
    /\ UNCHANGED <<signing, ws, twin, config, listeners, now, last, hist, lastStored, nstores, nupdates>>

\* session = self.storage.load(thread_id), or a new LSSSession (lpi 360-375): the
\* object the memory store holds, or a new object with the id of the call
StepLoad(c) ==
    /\ c \in DOMAIN calls /\ calls[c].pc = "load"
    /\ \E loaded \in {StorageLoad(sessions, calls[c].thread_id, now)} :
          IF backend = "memory" /\ loaded # None
          THEN /\ calls' = [calls EXCEPT ![c].pc = "append",
                                         ![c].session = Some(resident[calls[c].thread_id]),
                                         ![c].did = Append(@, Statement(c))]
               /\ heap' = heap
          ELSE /\ calls' = [calls EXCEPT ![c].pc = "append", ![c].session = Some(c),
                                         ![c].did = Append(@, Statement(c))]
               /\ heap' = Put(heap, c, IF loaded = None
                                       THEN NewSession(calls[c].thread_id, calls[c].t)
                                       ELSE loaded[1])
    /\ UNCHANGED <<signing, ws, twin, config, sessions, listeners, now, resident, last, hist, lastStored, nstores, nupdates>>

\* the message is appended, the list trimmed, the metadata set (lpi 378-383)
StepAppend(c) ==
    /\ c \in DOMAIN calls /\ calls[c].pc = "append"
    /\ \E w \in {Write(calls[c].session[1],
                       AppendMessage(Deref(calls[c].session[1]),
                                     LSSMessage(calls[c].lce, None, calls[c].t),
                                     calls[c].t))} :
          sessions' = w.sessions /\ heap' = w.heap
    /\ calls' = [calls EXCEPT ![c].pc = "metrics", ![c].did = Append(@, Statement(c))]
    /\ UNCHANGED <<signing, ws, twin, config, listeners, now, resident, last, hist, lastStored, nstores, nupdates>>

\* the metrics after lpi 385-398, written to the call's object
MetricsWritten(c) ==
    Write(calls[c].session[1],
          UpdateSessionMetrics(Deref(calls[c].session[1]), calls[c].t).session)

\* whether lpi 385-396 reaches self._emit("drift", drift_event) with a listener to call
Emits(c) ==
    /\ listeners # <<>>
    /\ UpdateSessionMetrics(Deref(calls[c].session[1]), calls[c].t).event # None

\* the event a listener is called with at lpi 396, if one is
Told(c) ==
    IF Emits(c) THEN UpdateSessionMetrics(Deref(calls[c].session[1]), calls[c].t).event
    ELSE None

\* coherence, drift detection, metrics, the event and its listeners (lpi 385-398)
StepMetrics(c) ==
    /\ c \in DOMAIN calls /\ calls[c].pc = "metrics"
    /\ \E w \in {MetricsWritten(c)} : sessions' = w.sessions /\ heap' = w.heap
    /\ calls' = [calls EXCEPT ![c].pc = "save", ![c].did = Append(@, Statement(c)),
                              ![c].told = Told(c)]
    /\ UNCHANGED <<signing, ws, twin, config, listeners, now, resident, last, hist, lastStored, nstores, nupdates>>

\* the same with a listener that raises: _emit lets the exception through (lpi
\* 480-482), store() ends at line 396
ListenerRaises(c) ==
    /\ c \in DOMAIN calls /\ calls[c].pc = "metrics"
    /\ Emits(c)
    /\ \E w \in {MetricsWritten(c)} : sessions' = w.sessions /\ heap' = w.heap
    /\ calls' = [calls EXCEPT ![c].pc = "raised", ![c].did = Append(@, Statement(c)),
                              ![c].told = Told(c)]
    /\ UNCHANGED <<signing, ws, twin, config, listeners, now, resident, last, hist, lastStored, nstores, nupdates>>

\* self.storage.save(session, self.session_ttl) (lpi 400): the memory store holds
\* the call's object from now on, Redis a serialized copy of it
StepSave(c) ==
    /\ c \in DOMAIN calls /\ calls[c].pc = "save"
    /\ \E oid \in {calls[c].session[1]}, thread_id \in {calls[c].thread_id} :
          IF backend = "redis"
          THEN /\ sessions' = StorageSave(sessions, Deref(oid), now, session_ttl)
               /\ UNCHANGED <<heap, resident>>
          ELSE /\ sessions' = StorageSave(sessions, Deref(oid), now, session_ttl)
               /\ resident' = Put(resident, thread_id, oid)
               /\ heap' = IF thread_id \in DOMAIN resident /\ resident[thread_id] # oid
                          THEN Put(Drop(heap, {oid}), resident[thread_id], sessions[thread_id])
                          ELSE Drop(heap, {oid})
    /\ calls' = [calls EXCEPT ![c].pc = "done", ![c].did = Append(@, Statement(c))]
    /\ UNCHANGED <<signing, ws, twin, config, listeners, now, last, hist, lastStored, nstores, nupdates>>

\* the Redis client raises in set(): store() ends at line 400, nothing is written
SaveFails(c) ==
    /\ c \in DOMAIN calls /\ calls[c].pc = "save"
    /\ backend = "redis"
    /\ calls' = [calls EXCEPT ![c].pc = "failed", ![c].did = Append(@, Statement(c))]
    /\ UNCHANGED <<signing, ws, twin, config, sessions, listeners, now, heap, resident, last, hist, lastStored, nstores, nupdates>>

\* the call is cut before its next statement (an exception delivered to its thread)
Cancel(c) ==
    /\ c \in InFlight
    /\ calls' = [calls EXCEPT ![c].pc = "cancelled"]
    /\ UNCHANGED <<signing, ws, twin, config, sessions, listeners, now, heap, resident, last, hist, lastStored, nstores, nupdates>>

----------------------------------------------------------------------------
(* Two threads of the host program calling store() on one LSS *)

MaxRaceStores == 3
MaxConcurrent == 2

InitSteps ==
    /\ impl = "lpi"
    /\ backend \in {"memory", "redis"}
    /\ max_messages = DefaultMaxMessages
    /\ session_ttl = SessionTtl
    /\ coherence_window = DefaultCoherenceWindow
    /\ drift_min_coherence = (6 * Scale) \div 10
    /\ drift_drop_threshold = (2 * Scale) \div 10
    /\ topic_shift_window = DefaultTopicShiftWindow
    /\ sessions = EmptyMap
    /\ now = 0
    /\ calls = <<>>
    /\ heap = EmptyMap
    /\ resident = EmptyMap
    /\ last = NoCall
    /\ wire = NoWire
    /\ verdict = NoVerdict
    /\ ws = NoConnection
    /\ twin = NoTwin
    /\ hist = [k \in Threads |-> <<>>]
    /\ lastStored = [k \in Threads |-> None]
    /\ nstores = 0
    /\ nupdates = 0

InitRace == InitSteps /\ listeners = <<>>

NextRace ==
    \/ \E thread_id \in Threads, lce \in BasicEnvelopes :
          /\ nstores < MaxRaceStores
          /\ Cardinality(InFlight) < MaxConcurrent
          /\ BeginStore(thread_id, lce)
    \/ \E c \in DOMAIN calls : StepCleanup(c)
    \/ \E c \in DOMAIN calls : StepLoad(c)
    \/ \E c \in DOMAIN calls : StepAppend(c)
    \/ \E c \in DOMAIN calls : StepMetrics(c)
    \/ \E c \in DOMAIN calls : StepSave(c)

SpecRace == InitRace /\ [][NextRace]_vars

----------------------------------------------------------------------------
(* store() calls made one after the other, each of which may be cut short *)

MaxCutStores == 2

InitCut == InitSteps /\ listeners = <<"cb1">>

NextCut ==
    \/ \E thread_id \in Threads, lce \in BasicEnvelopes :
          /\ nstores < MaxCutStores
          /\ InFlight = {}
          /\ BeginStore(thread_id, lce)
    \/ \E c \in DOMAIN calls : StepCleanup(c)
    \/ \E c \in DOMAIN calls : StepLoad(c)
    \/ \E c \in DOMAIN calls : StepAppend(c)
    \/ \E c \in DOMAIN calls : StepMetrics(c)
    \/ \E c \in DOMAIN calls : ListenerRaises(c)
    \/ \E c \in DOMAIN calls : StepSave(c)
    \/ \E c \in DOMAIN calls : SaveFails(c)
    \/ \E c \in DOMAIN calls : Cancel(c)

SpecCut == InitCut /\ [][NextCut]_vars

----------------------------------------------------------------------------
(* Signing and verification of envelopes.
   A Python value is a record of its type and its content: bytes that are a
   CBOR encoding carry the value encoded, a signature carries the key and the
   message it was made of, a base64 text carries the bytes it decodes to.  An
   envelope, as an LCE object or as a dict, is a function from field names to
   optional values; an LCE object has every field, a dict the keys present.
   The items of a list are optional values too: a list can hold None. *)

\* a call that raised, a call that returned
Raise(exception) == [raised |-> Some(exception)]
Return(value) == [raised |-> None, value |-> value]

\* cbor2.dumps(value, canonical=True) and cbor2.loads(data): one encoding per
\* value, map keys sorted
CborDumps(value) == Bytes([cbor |-> value])
CborLoads(data) == data.val.cbor

\* base64.urlsafe_b64encode(data).rstrip(b"=") and the decoding of such a text
\* with its padding put back (cbor_cose 153-159, ltp.py 86-98 and 137-150,
\* ed25519.py 21-27); decoding a text that is not base64 raises
base64url_encode(data) == Str([b64 |-> data])
IsBase64(value) == value.type = "str" /\ "b64" \in DOMAIN value.val
base64url_decode(value) == value.val.b64

\* the keypair named k, and Ed25519 as the library gives it: a signature is
\* bound to the signing key and to the message, and verifies under the public
\* key of that keypair for that message only
KeyPairs == {"k1", "k2"}
PrivateKey(k) == [private |-> k]
PublicKey(k) == [public |-> k]
Ed25519Sign(private_key, message) ==
    Bytes([signer |-> private_key.private, message |-> message])
\* a verification that looks at the message and not at the key
VerifyUnderAnyKey(public_key, signature, message) ==
    /\ signature.type = "bytes"
    /\ "signer" \in DOMAIN signature.val
    /\ signature.val.message = message

Ed25519Verify(public_key, signature, message) ==
    /\ signature.type = "bytes"
    /\ "signer" \in DOMAIN signature.val
    /\ signature.val.signer = public_key.public
    /\ signature.val.message = message

COSE_ALG_EDDSA == -8
COSE_CONTEXT == "Signature1"
COSE_HEADER_ALG == 1
COSE_HEADER_KID == 4

\* the fields of an envelope other than sig that the model carries
PayloadFields == {"intent", "topic", "tags"}
FieldNames == PayloadFields \cup {"sig"}

\* _to_bytes (cbor_cose 27-32): a str is encoded, bytes are kept
_to_bytes(value) == IF value = None THEN None ELSE Some(Bytes(value[1].val))

\* the truth value of optional bytes: None and b"" are false
Truthy(value) == value # None /\ value[1].val # ""

\* _clean_value (35-55) of an optional value: a list loses the items that are
\* None after cleaning, other values are kept
RECURSIVE _clean_value(_)
_clean_value(value) ==
    IF value = None THEN None
    ELSE IF value[1].type = "array"
    THEN Some(Array(SelectSeq([i \in DOMAIN value[1].val |-> _clean_value(value[1].val[i])],
                              LAMBDA item : item # None)))
    ELSE value

\* a normalisation that keeps the sig field
NormalizeKeepingSig(lce) ==
    [key \in {k \in DOMAIN lce : _clean_value(lce[k]) # None} |-> _clean_value(lce[key])[1]]

\* _normalize_lce (58-71): the fields whose cleaned value is not None, without sig
_normalize_lce(lce) ==
    [key \in {k \in (DOMAIN lce) \ {"sig"} : _clean_value(lce[k]) # None} |->
        _clean_value(lce[key])[1]]

\* LCE.model_validate(data): every field of the model, None where data has none
model_validate(data) ==
    [key \in FieldNames |-> IF key \in DOMAIN data THEN Some(data[key]) ELSE None]

\* _encode_protected_header (74-79)
_encode_protected_header(key_id) ==
    LET key_bytes == _to_bytes(key_id)
        alg == [key \in {COSE_HEADER_ALG} |-> COSE_ALG_EDDSA]
    IN  CborDumps(Map(IF Truthy(key_bytes)
                      THEN [key \in {COSE_HEADER_ALG, COSE_HEADER_KID} |->
                               IF key = COSE_HEADER_ALG THEN COSE_ALG_EDDSA ELSE key_bytes[1]]
                      ELSE alg))

\* _to_bytes(external_aad) or b"" (145, 192)
AadBytes(external_aad) ==
    IF Truthy(_to_bytes(external_aad)) THEN _to_bytes(external_aad)[1] ELSE Bytes("")

\* a Sig_structure that leaves the external_aad out
SigStructureWithoutAad(protected_header, external_aad, payload) ==
    CborDumps(Array(<<Str(COSE_CONTEXT), protected_header, payload>>))

\* _encode_sig_structure (98-101)
_encode_sig_structure(protected_header, external_aad, payload) ==
    CborDumps(Array(<<Str(COSE_CONTEXT), protected_header, external_aad, payload>>))

\* _parse_cose_sign1 (104-124)
_parse_cose_sign1(cose) ==
    LET decoded == CborLoads(cose)
    IN  IF decoded.type # "array" \/ Len(decoded.val) # 4
        THEN Raise("CoseError")
        ELSE LET protected == decoded.val[1]
                 unprotected == decoded.val[2]
                 payload == decoded.val[3]
                 signature == decoded.val[4]
             IN  IF \/ protected.type # "bytes"
                    \/ payload.type # "bytes"
                    \/ signature.type # "bytes"
                    \/ unprotected.type \notin {"null", "map"}
                 THEN Raise("CoseError")
                 ELSE IF Get(CborLoads(protected).val, COSE_HEADER_ALG)
                            # Some(COSE_ALG_EDDSA)
                 THEN Raise("CoseError")
                 ELSE Return([protected_header |-> protected,
                              header_map |-> CborLoads(protected).val,
                              payload |-> payload,
                              signature |-> signature])

\* encode_lce_cbor (127-131)
encode_lce_cbor(lce) == CborDumps(Map(_normalize_lce(lce)))

\* create_cose_sign1 (134-150)
create_cose_sign1(lce, private_key, key_id, external_aad) ==
    LET payload == encode_lce_cbor(lce)
        protected_header == _encode_protected_header(key_id)
        sig_structure == _encode_sig_structure(protected_header, AadBytes(external_aad), payload)
        signature == Ed25519Sign(private_key, sig_structure)
    IN  [cose |-> CborDumps(Array(<<protected_header, Map(<<>>), payload, signature>>)),
         payload |-> payload,
         protected_header |-> protected_header,
         signature |-> signature]

\* sign_lce (162-173)
sign_lce(lce, private_key, key_id, external_aad) ==
    LET cose == create_cose_sign1(lce, private_key, key_id, external_aad).cose
        payload == _normalize_lce(lce)
    IN  model_validate([key \in (DOMAIN payload) \cup {"sig"} |->
                           IF key = "sig" THEN base64url_encode(cose) ELSE payload[key]])

\* verify_cose_sign1 (185-205) on what _parse_cose_sign1 returned
VerifyParsed(parsed, public_key, external_aad) ==
    LET sig_structure == _encode_sig_structure(parsed.protected_header,
                                               AadBytes(external_aad), parsed.payload)
    IN  IF ~Ed25519Verify(public_key, parsed.signature, sig_structure)
        THEN Raise("CoseError")
        ELSE IF CborLoads(parsed.payload).type # "map"
        THEN Raise("CoseError")
        ELSE Return([lce |-> model_validate(CborLoads(parsed.payload).val),
                     key_id |-> Get(parsed.header_map, COSE_HEADER_KID)])

verify_cose_sign1(cose, public_key, external_aad) ==
    IF _parse_cose_sign1(cose).raised # None
    THEN _parse_cose_sign1(cose)
    ELSE VerifyParsed(_parse_cose_sign1(cose).value, public_key, external_aad)

\* verify_signed_lce (208-227)
verify_signed_lce(lce, public_key, external_aad) ==
    IF lce.sig = None
    THEN Raise("CoseError")
    ELSE IF _parse_cose_sign1(base64url_decode(lce.sig[1])).raised # None
    THEN _parse_cose_sign1(base64url_decode(lce.sig[1]))
    ELSE IF _parse_cose_sign1(base64url_decode(lce.sig[1])).value.payload # encode_lce_cbor(lce)
    THEN Return(FALSE)
    ELSE IF verify_cose_sign1(base64url_decode(lce.sig[1]), public_key, external_aad).raised = None
    THEN Return(TRUE)
    ELSE Return(FALSE)

----------------------------------------------------------------------------
(* The compact text form: ltp.py *)

\* str.encode("utf-8") and bytes.decode("utf-8")
Utf8(text) == Bytes([utf8 |-> text])
IsUtf8(data) == data.type = "bytes" /\ "utf8" \in DOMAIN data.val

\* json.dumps(data, sort_keys=True, separators=(",", ":")) (ltp.py 60-63): the
\* keys in one order, None written as null
_canonicalize_json(data) == Str([json |-> data])

\* "a.b.c" as its segments, and value.split(".")
Dotted(parts) == Str([parts |-> parts])
Split(value) == IF "parts" \in DOMAIN value.val THEN value.val.parts ELSE <<value>>

\* dict without the key "sig"
StripSig(lce_dict) == [key \in (DOMAIN lce_dict) \ {"sig"} |-> lce_dict[key]]

\* lce.model_dump(exclude_none=True)
model_dump(lce) == [key \in {k \in DOMAIN lce : lce[k] # None} |-> lce[key]]

\* the JWS header of ltp.sign (ltp.py 85-88)
JwsHeader(alg) ==
    base64url_encode(Utf8(Str([json |-> [alg |-> alg, typ |-> "LCE"]])))

\* ltp.sign (ltp.py 66-105)
sign(lce, private_key) ==
    LET lce_dict == StripSig(model_dump(lce))
        header_b64 == JwsHeader("EdDSA")
        payload_b64 == base64url_encode(Utf8(_canonicalize_json(lce_dict)))
        signature == Ed25519Sign(private_key, Utf8(Dotted(<<header_b64, payload_b64>>)))
        jws == Dotted(<<header_b64, payload_b64, base64url_encode(signature)>>)
    IN  [key \in (DOMAIN lce_dict) \cup {"sig"} |->
            IF key = "sig" THEN Some(jws) ELSE lce_dict[key]]

\* lce.get("sig")
GetSig(lce) == IF "sig" \in DOMAIN lce THEN lce.sig ELSE None

\* ltp.verify (ltp.py 108-157) from the three segments on: each failed step
\* raises inside the try block, which returns False
VerifySegments(parts, lce_dict, public_key) ==
    /\ IsBase64(parts[2])
    /\ IsUtf8(base64url_decode(parts[2]))
    /\ base64url_decode(parts[2]).val.utf8 = _canonicalize_json(StripSig(lce_dict))
    /\ IsBase64(parts[3])
    /\ Ed25519Verify(public_key, base64url_decode(parts[3]),
                     Utf8(Dotted(<<parts[1], parts[2]>>)))

verify(lce_dict, public_key) ==
    IF GetSig(lce_dict) = None \/ GetSig(lce_dict)[1] = Dotted(<<>>)
    THEN FALSE
    ELSE IF GetSig(lce_dict)[1].type # "str" \/ Len(Split(GetSig(lce_dict)[1])) # 3
    THEN FALSE
    ELSE VerifySegments(Split(GetSig(lce_dict)[1]), lce_dict, public_key)

----------------------------------------------------------------------------
(* The detached text form: ltp/__init__.py with ltp/jcs.py and ltp/ed25519.py *)

\* canonicalize_ltp_payload (jcs.py 10-18): RFC 8785, None written as null
canonicalize_ltp_payload(value) == Str([jcs |-> value])

\* sign_lce of the ltp package (ltp/__init__.py 31-41)
ltp_sign_lce(lce, private_key) ==
    LET payload == StripSig(lce)
        signature == base64url_encode(
                         Ed25519Sign(private_key, Utf8(canonicalize_ltp_payload(payload))))
    IN  [key \in (DOMAIN payload) \cup {"sig"} |->
            IF key = "sig" THEN Some(signature) ELSE payload[key]]

\* verify_lce (ltp/__init__.py 44-55)
verify_lce(lce, public_key) ==
    IF GetSig(lce) = None \/ GetSig(lce)[1].type # "str" \/ GetSig(lce)[1] = Dotted(<<>>)
    THEN FALSE
    ELSE /\ IsBase64(GetSig(lce)[1])
         /\ Ed25519Verify(public_key, base64url_decode(GetSig(lce)[1]),
                          Utf8(canonicalize_ltp_payload(StripSig(lce))))

----------------------------------------------------------------------------
(* Signing an envelope, changing what was signed, verifying it *)

MaxChanges == 1
OtherAlg == -7

Forms == {"cose", "embedded", "jws", "jcs"}
BinaryForms == {"cose", "embedded"}

\* the values of a field in a valid envelope
FieldValues(field) ==
    CASE field = "intent" -> {Str("ask"), Str("tell")}
      [] field = "topic"  -> {Str("A")}
      [] field = "tags"   -> {Array(<<Some(Str("x"))>>)}

\* the values a field can be given afterwards: those, and for the list one
\* more item, a string or None
GivenValues(field) ==
    FieldValues(field) \cup
        (IF field = "tags"
         THEN {Array(<<Some(Str("x")), Some(Str("y"))>>), Array(<<Some(Str("x")), None>>)}
         ELSE {})

\* a sig that is base64 but not of a COSE_Sign1 array: "AA", the CBOR integer 0
StaleSig == base64url_encode(CborDumps([type |-> "int", val |-> 0]))

\* the valid envelopes: intent is required, topic optional, a sig may be there
ValidEnvelopes ==
    {[intent |-> Some(intent), topic |-> topic, tags |-> tags, sig |-> sig] :
        intent \in FieldValues("intent"),
        topic \in {None} \cup {Some(t) : t \in FieldValues("topic")},
        tags \in {None} \cup {Some(t) : t \in FieldValues("tags")},
        sig \in {None, Some(StaleSig)}}

\* key_id and external_aad arguments
KeyIds == {None, Some(Bytes("")), Some(Str("")), Some(Bytes("kid")), Some(Str("kid"))}
Aads == {None, Some(Bytes("")), Some(Bytes("session")), Some(Bytes("other"))}

\* what the sign function of a form returns
Signed(form, lce, private_key, key_id, external_aad) ==
    CASE form = "cose"     -> create_cose_sign1(lce, private_key, key_id, external_aad).cose
      [] form = "embedded" -> sign_lce(lce, private_key, key_id, external_aad)
      [] form = "jws"      -> sign(lce, private_key)
      [] form = "jcs"      -> ltp_sign_lce(lce, private_key)

Sign(form, lce, k, key_id, external_aad) ==
    /\ wire' = [form |-> form, lce |-> lce, k |-> k, key_id |-> key_id,
                external_aad |-> external_aad,
                artefact |-> Signed(form, lce, PrivateKey(k), key_id, external_aad),
                changes |-> 0, cause |-> "none"]
    /\ verdict' = NoVerdict
    /\ UNCHANGED <<ws, twin, config, sessions, listeners, now, inflight, last, hist, lastStored, nstores, nupdates>>

\* the envelopes that differ from a signed one in the value of one field other
\* than sig: altered, added, removed (an LCE object then holds None, a dict
\* loses the key)
TamperedFrom(form, envelope) ==
    LET altered == UNION {{[envelope EXCEPT ![field] = value] :
                              value \in {None} \cup {Some(v) : v \in GivenValues(field)}} :
                          field \in PayloadFields \cap DOMAIN envelope}
        removed == {Drop(envelope, {field}) : field \in PayloadFields \cap DOMAIN envelope}
        added   == UNION {{Put(envelope, field, value) :
                              value \in {None} \cup {Some(v) : v \in GivenValues(field)}} :
                          field \in PayloadFields \ DOMAIN envelope}
    IN  {e \in altered \cup added \cup (IF form = "embedded" THEN {} ELSE removed) :
            e # envelope}

Tamper ==
    /\ wire.form \in Forms \ {"cose"}
    /\ wire.changes < MaxChanges
    /\ \E envelope \in TamperedFrom(wire.form, wire.artefact) :
          wire' = [wire EXCEPT !.artefact = envelope, !.changes = @ + 1, !.cause = "tampered"]
    /\ verdict' = NoVerdict
    /\ UNCHANGED <<ws, twin, config, sessions, listeners, now, inflight, last, hist, lastStored, nstores, nupdates>>

\* what can be wrong with the signature part of each form
Causes(form) ==
    CASE form = "cose"     -> {"malformed", "shape", "type", "alg", "alg_signed", "badsig"}
      [] form = "embedded" -> {"nosig", "malformed", "shape", "type", "alg", "alg_signed", "badsig"}
      [] form = "jws"      -> {"nosig", "malformed", "shape", "alg", "alg_signed", "badsig"}
      [] form = "jcs"      -> {"nosig", "malformed", "badsig"}
      [] OTHER             -> {}

\* bytes that are no signature of anything
NoSignature == Bytes([junk |-> TRUE])

\* a COSE_Sign1 blob made wrong: not an array, an array of three, the signature
\* a text, another algorithm in the protected header (with the signature left,
\* or made by the key over the structure as it then is), a signature of nothing
CoseWith(cose, cause, private_key, external_aad) ==
    LET items == CborLoads(cose).val
        header == CborLoads(items[1]).val
        other == CborDumps(Map([key \in DOMAIN header |->
                                   IF key = COSE_HEADER_ALG THEN OtherAlg ELSE header[key]]))
    IN  CASE cause = "malformed" -> CborDumps([type |-> "int", val |-> 0])
          [] cause = "shape" -> CborDumps(Array(SubSeq(items, 1, 3)))
          [] cause = "type" ->
                 CborDumps(Array(<<items[1], items[2], items[3], base64url_encode(items[4])>>))
          [] cause = "alg" -> CborDumps(Array(<<other, items[2], items[3], items[4]>>))
          [] cause = "alg_signed" ->
                 CborDumps(Array(<<other, items[2], items[3],
                                   Ed25519Sign(private_key,
                                               _encode_sig_structure(other, AadBytes(external_aad),
                                                                     items[3]))>>))
          [] cause = "badsig" -> CborDumps(Array(<<items[1], items[2], items[3], NoSignature>>))

\* the same for the three segments of the compact form
JwsWith(parts, cause, private_key) ==
    CASE cause = "malformed" -> StaleSig
      [] cause = "shape" -> Dotted(<<parts[1], parts[2]>>)
      [] cause = "alg" -> Dotted(<<JwsHeader("none"), parts[2], parts[3]>>)
      [] cause = "alg_signed" ->
             Dotted(<<JwsHeader("none"), parts[2],
                      base64url_encode(Ed25519Sign(private_key,
                                                   Utf8(Dotted(<<JwsHeader("none"), parts[2]>>))))>>)
      [] cause = "badsig" -> Dotted(<<parts[1], parts[2], base64url_encode(NoSignature)>>)

Corrupted(form, artefact, cause, private_key, external_aad) ==
    CASE form = "cose" -> CoseWith(artefact, cause, private_key, external_aad)
      [] form # "cose" /\ cause = "nosig" ->
             IF form = "embedded" THEN [artefact EXCEPT !.sig = None] ELSE StripSig(artefact)
      [] form = "embedded" /\ cause # "nosig" ->
             [artefact EXCEPT !.sig = Some(base64url_encode(
                  CoseWith(base64url_decode(artefact.sig[1]), cause, private_key, external_aad)))]
      [] form = "jws" /\ cause # "nosig" ->
             [artefact EXCEPT !.sig = Some(JwsWith(Split(artefact.sig[1]), cause, private_key))]
      [] form = "jcs" /\ cause # "nosig" ->
             [artefact EXCEPT !.sig = Some(IF cause = "malformed" THEN Dotted(<<>>)
                                           ELSE base64url_encode(NoSignature))]

Corrupt(cause) ==
    /\ cause \in Causes(wire.form)
    /\ wire.cause \in {"none", "tampered"}
    /\ wire.changes < MaxChanges
    /\ wire' = [wire EXCEPT !.artefact = Corrupted(wire.form, wire.artefact, cause,
                                                   PrivateKey(wire.k), wire.external_aad),
                            !.changes = @ + 1, !.cause = cause]
    /\ verdict' = NoVerdict
    /\ UNCHANGED <<ws, twin, config, sessions, listeners, now, inflight, last, hist, lastStored, nstores, nupdates>>

\* the verify function of a form; the boolean ones return their answer
Verified(form, artefact, public_key, external_aad) ==
    CASE form = "cose"     -> verify_cose_sign1(artefact, public_key, external_aad)
      [] form = "embedded" -> verify_signed_lce(artefact, public_key, external_aad)
      [] form = "jws"      -> Return(verify(artefact, public_key))
      [] form = "jcs"      -> Return(verify_lce(artefact, public_key))

Verify(k, external_aad) ==
    /\ wire.form \in Forms
    /\ wire.form \in BinaryForms \/ external_aad = None
    /\ verdict' = [op |-> "verify", k |-> k, external_aad |-> external_aad,
                   result |-> Verified(wire.form, wire.artefact, PublicKey(k), external_aad)]
    /\ UNCHANGED <<wire, ws, twin, config, sessions, listeners, now, inflight, last, hist, lastStored, nstores, nupdates>>

\* a second call of the sign function of the form, with the key, the key_id and
\* the external_aad of the first call, on any valid envelope
SignAgain(lce) ==
    /\ wire.form \in Forms
    /\ wire.changes = 0
    /\ verdict' = [op |-> "sign", lce |-> lce,
                   result |-> Return(Signed(wire.form, lce, PrivateKey(wire.k), wire.key_id,
                                            wire.external_aad))]
    /\ UNCHANGED <<wire, ws, twin, config, sessions, listeners, now, inflight, last, hist, lastStored, nstores, nupdates>>

InitSign == InitSteps /\ backend = "memory" /\ listeners = <<>>

NextSign ==
    \/ \E form \in Forms, lce \in ValidEnvelopes, k \in KeyPairs, key_id \in KeyIds,
          external_aad \in Aads :
          /\ wire = NoWire
          /\ form \in BinaryForms \/ (key_id = None /\ external_aad = None)
          /\ key_id = None \/ external_aad = None
          /\ Sign(form, lce, k, key_id, external_aad)
    \/ Tamper
    \/ \E cause \in UNION {Causes(form) : form \in Forms} : Corrupt(cause)
    \/ \E k \in KeyPairs, external_aad \in Aads : Verify(k, external_aad)
    \/ \E lce \in ValidEnvelopes : SignAgain(lce)

SpecSign == InitSign /\ [][NextSign]_vars

----------------------------------------------------------------------------
(* The LHS handshake over a WebSocket, and the LCE frames that follow it.
   A frame is the JSON object it carries: a record of its keys.  The two
   directions of the connection are queues: frames arrive in the order sent. *)

MaxFrames == 1

\* ws/types.py 14-60: the four handshake messages, as model_dump_json writes them
LHSHello(encodings, features, client_id) ==
    [step |-> "hello", lri_version |-> "0.2", encodings |-> encodings,
     features |-> features, client_id |-> client_id]
LHSMirror(encoding, features, server_id) ==
    [step |-> "mirror", lri_version |-> "0.2", encoding |-> encoding,
     features |-> features, server_id |-> server_id]
LHSBind(thread) == [step |-> "bind", thread |-> thread, auth |-> None]
LHSSeal(session_id, thread) ==
    [step |-> "seal", session_id |-> session_id, thread |-> thread, status |-> "ready"]

\* lce.model_dump_json() of an envelope with the given intent
LceJson(intent) == [v |-> 1, intent |-> intent, policy |-> "private"]

\* a frame that is not the text of a JSON object
NotJson == [text |-> "not json"]
IsJsonObject(frame) == "text" \notin DOMAIN frame

\* the keys a handshake message must carry: every other field has a default
RequiredKeys(step) == IF step = "seal" THEN {"session_id"} ELSE {}

\* LHSHello/LHSMirror/LHSBind/LHSSeal.model_validate_json: the step, when the
\* frame has one, is the literal of the class; the required keys are there;
\* keys the class does not know are ignored
model_validate_json(frame, step) ==
    /\ IsJsonObject(frame)
    /\ "step" \in DOMAIN frame => frame.step = step
    /\ RequiredKeys(step) \subseteq DOMAIN frame

\* the value of a field after validation: the default where the key is absent
FieldOf(frame, key, default) == IF key \in DOMAIN frame THEN frame[key] ELSE default

\* LCE.model_validate(json.loads(message)): intent and policy are required,
\* unknown keys are forbidden
IsLce(frame) == {"intent", "policy"} \subseteq DOMAIN frame /\ DOMAIN frame \subseteq {"v", "intent", "policy"}

Event(side, act, frame) == [side |-> side, act |-> act, frame |-> frame]

\* a frame leaves one side: it joins the queue of its direction
SendTo(conn, side, frame) ==
    [conn EXCEPT !.log = Append(@, Event(side, "send", frame)),
                 !.c2s = IF side = "client" THEN Append(@, frame) ELSE @,
                 !.s2c = IF side = "server" THEN Append(@, frame) ELSE @]

\* a side takes the next frame of the queue towards it
Received(conn, side) ==
    [conn EXCEPT !.log = Append(@, Event(side, "recv",
                                         IF side = "server" THEN Head(conn.c2s) ELSE Head(conn.s2c))),
                 !.c2s = IF side = "server" THEN Tail(@) ELSE @,
                 !.s2c = IF side = "client" THEN Tail(@) ELSE @]

\* on_message is awaited with the envelope: by the server (91) with its session id and
\* the thread of the Bind, by the client (client.py 91) with the envelope alone; it
\* returns or raises
Delivered(conn, side, frame, raises) ==
    [conn EXCEPT !.log = Append(@,
        [side |-> side, act |-> "deliver", frame |-> frame, raised |-> raises,
         session_id |-> IF side = "server" THEN Some("s1") ELSE None,
         thread_id  |-> IF side = "server" THEN conn.server_thread ELSE None])]

\* the frames a side has sent that are no handshake message
FramesSent(side) ==
    Cardinality({i \in DOMAIN ws.log : /\ ws.log[i].side = side
                                       /\ ws.log[i].act = "send"
                                       /\ "step" \notin DOMAIN ws.log[i].frame})

LceSent(side) ==
    Cardinality({i \in DOMAIN ws.log : /\ ws.log[i].side = side
                                       /\ ws.log[i].act = "send"
                                       /\ IsLce(ws.log[i].frame)})

Elsewhere ==
    UNCHANGED <<signing, twin, config, sessions, listeners, now, inflight, last, hist, lastStored,
                nstores, nupdates>>

\* client.py 32-44 and server.py 41-48: the client opens the connection and
\* sends Hello; the server starts a handler, which waits for the first frame
Connect(encodings, thread_id) ==
    /\ ws.client = "idle"
    /\ ws' = SendTo([ws EXCEPT !.client = "await_mirror", !.server = "await_hello",
                               !.thread_id = thread_id],
                    "client",
                    LHSHello(IF encodings = <<>> THEN <<"json", "cbor">> ELSE encodings,
                             <<"ltp", "lss">>, Some("python-lri-client")))
    /\ Elsewhere

\* a handler that registers the session as soon as Hello is accepted
OnHelloRegistering(conn, frame) ==
    IF model_validate_json(frame, "hello")
    THEN SendTo([conn EXCEPT !.server = "await_bind", !.server_encoding = Some("json"),
                             !.sessions = {"s1"}],
                "server", LHSMirror("json", <<"ltp", "lss">>, Some("lri-server")))
    ELSE [conn EXCEPT !.server = "closed"]

\* a handler that accepts Hello and waits for Bind without sending Mirror
OnHelloSilent(conn, frame) ==
    IF model_validate_json(frame, "hello")
    THEN [conn EXCEPT !.server = "await_bind", !.server_encoding = Some("json")]
    ELSE [conn EXCEPT !.server = "closed"]

\* server.py 48-59: Hello is validated, Mirror is sent
OnHello(conn, frame) ==
    IF model_validate_json(frame, "hello")
    THEN LET encodings == FieldOf(frame, "encodings", <<"json", "cbor">>)
             encoding == IF encodings # <<>> THEN encodings[1] ELSE "json"
         IN SendTo([conn EXCEPT !.server = "await_bind", !.server_encoding = Some(encoding)],
                   "server", LHSMirror(encoding, <<"ltp", "lss">>, Some("lri-server")))
    ELSE [conn EXCEPT !.server = "closed"]

\* server.py 63-80: Bind is validated, Seal is sent, the session is registered
OnBind(conn, frame) ==
    IF model_validate_json(frame, "bind")
    THEN LET thread == FieldOf(frame, "thread", None)
         IN SendTo([conn EXCEPT !.server = "ready", !.server_thread = thread,
                                !.sessions = {"s1"}],
                   "server", LHSSeal("s1", thread))
    ELSE [conn EXCEPT !.server = "closed"]

\* a message loop that ends on a frame that is no envelope and on a handler that raises
OnMessageOrEnd(conn, side, frame, raises) ==
    IF IsLce(frame) /\ ~raises THEN Delivered(conn, side, frame, raises)
    ELSE [conn EXCEPT !.server = "closed", !.sessions = {}]

\* server.py 83-94, client.py 85-93: a frame that is an LCE goes to on_message,
\* any other is reported and dropped, and so is what on_message raises
OnMessage(conn, side, frame, raises) ==
    IF IsLce(frame) THEN Delivered(conn, side, frame, raises) ELSE conn

\* server.py 41-94: the connection handler takes the next frame from the client
ServerReceive(raises) ==
    /\ ws.server \in {"await_hello", "await_bind", "ready"}
    /\ ws.c2s # <<>>
    /\ ws' = IF ws.server = "await_hello" THEN OnHello(Received(ws, "server"), Head(ws.c2s))
             ELSE IF ws.server = "await_bind" THEN OnBind(Received(ws, "server"), Head(ws.c2s))
             ELSE OnMessage(Received(ws, "server"), "server", Head(ws.c2s), raises)
    /\ Elsewhere

\* client.py 47-55: Mirror is validated, Bind is sent
OnMirror(conn, frame) ==
    IF model_validate_json(frame, "mirror")
    THEN SendTo([conn EXCEPT !.client = "await_seal",
                             !.negotiated_encoding = Some(FieldOf(frame, "encoding", "json"))],
                "client", LHSBind(conn.thread_id))
    ELSE [conn EXCEPT !.client = "failed"]

\* client.py 58-61: Seal is validated, connect() returns
OnSeal(conn, frame) ==
    IF model_validate_json(frame, "seal")
    THEN [conn EXCEPT !.client = "ready", !.session_id = Some(frame.session_id)]
    ELSE [conn EXCEPT !.client = "failed"]

\* client.py 47-61: connect() takes the frame it waits for
ClientReceive ==
    /\ ws.client \in {"await_mirror", "await_seal"}
    /\ ws.s2c # <<>>
    /\ ws' = IF ws.client = "await_mirror" THEN OnMirror(Received(ws, "client"), Head(ws.s2c))
             ELSE OnSeal(Received(ws, "client"), Head(ws.s2c))
    /\ Elsewhere

\* client.py 63-69: send() asks for a websocket only, and connect() has set
\* it before the handshake begins (line 34)
ClientSend(intent) ==
    /\ ws.client \in {"await_mirror", "await_seal", "ready", "failed"}
    /\ ws.server # "closed"
    /\ ws' = SendTo(ws, "client", LceJson(intent))
    /\ Elsewhere

\* the peer of the server writes a frame that is no envelope to the websocket
PeerSends(frame) ==
    /\ ws.client \in {"await_mirror", "await_seal", "ready", "failed"}
    /\ ws.server # "closed"
    /\ ws' = SendTo(ws, "client", frame)
    /\ Elsewhere

\* server.py 103-111: send() raises ValueError for a session that is not registered
\* and sends the envelope otherwise
ServerSend(session_id, intent) ==
    /\ ws.server # "idle"
    /\ ws' = IF session_id \in ws.sessions
             THEN [SendTo(ws, "server", LceJson(intent)) EXCEPT !.raised = None]
             ELSE [ws EXCEPT !.raised = Some("ValueError")]
    /\ Elsewhere

\* client.py 80-93: listen() takes the next frame; while connect() waits for
\* a frame the websocket refuses a second reader
ClientListen(raises) ==
    /\ ws.client \in {"ready", "failed"}
    /\ ws.s2c # <<>>
    /\ ws' = OnMessage(Received(ws, "client"), "client", Head(ws.s2c), raises)
    /\ Elsewhere

\* client.py 95-99 and server.py 96-101: the client closes, the handler ends
Close ==
    /\ ws.client \in {"await_mirror", "await_seal", "ready", "failed"}
    /\ ws' = [ws EXCEPT !.client = "closed", !.server = "closed", !.sessions = {},
                        !.c2s = <<>>, !.s2c = <<>>]
    /\ Elsewhere

InitHandshake == InitSign

NextHandshake ==
    \/ \E encodings \in {<<>>, <<"cbor", "json">>}, thread_id \in {None, Some("t1")} :
          Connect(encodings, thread_id)
    \/ \E raises \in BOOLEAN : ServerReceive(raises)
    \/ ClientReceive
    \/ LceSent("client") < MaxFrames /\ ClientSend("ask")
    \/ FramesSent("client") - LceSent("client") < MaxFrames /\ PeerSends(NotJson)
    \/ LceSent("server") < MaxFrames /\ ServerSend("s1", "tell")
    \/ \E raises \in BOOLEAN : ClientListen(raises)
    \/ Close

SpecHandshake == InitHandshake /\ [][NextHandshake]_vars

\* The same connection with a client that sends after connect() has returned: envelopes,
\* and frames that are no envelope

MaxMessages == 2

\* a JSON object that is no envelope: intent and policy are missing
NotEnvelope == [v |-> 1]

NextSession ==
    \/ \E encodings \in {<<>>, <<"cbor", "json">>}, thread_id \in {None, Some("t1")} :
          Connect(encodings, thread_id)
    \/ \E raises \in BOOLEAN : ServerReceive(raises)
    \/ ClientReceive
    \/ \E intent \in {"ask", "tell"} :
          ws.client = "ready" /\ FramesSent("client") < MaxMessages /\ ClientSend(intent)
    \/ \E frame \in {NotJson, NotEnvelope} :
          ws.client = "ready" /\ FramesSent("client") < MaxMessages /\ PeerSends(frame)
    \/ LceSent("server") < MaxFrames /\ ServerSend("s1", "tell")
    \/ \E raises \in BOOLEAN : ClientListen(raises)
    \/ Close

SpecSession == InitHandshake /\ [][NextSession]_vars

\* each side takes a frame that has arrived
SpecSessionLive ==
    /\ SpecSession
    /\ WF_vars(\E raises \in BOOLEAN : ServerReceive(raises))
    /\ WF_vars(ClientReceive)

----------------------------------------------------------------------------
(* The LCE header of an HTTP request (lri/lri.py).  A JSON value is a record
   of its type and content, as above; a text that is the base64 of some
   bytes carries the bytes, bytes that are the UTF-8 of a text carry the text,
   a text that is the JSON of a value carries the value. *)

JsonNull == [type |-> "null"]
JsonNumber(n) == [type |-> "int", val |-> n]
PlainText(characters) == Str([text |-> characters])
JsonDumps(value) == Str([dumps |-> value])
\* LRI.create_header (125-137) for any JSON value
B64Encode(data) == Str([base64 |-> data])

IntentTypes ==
    {"ask", "tell", "propose", "confirm", "notify", "sync", "plan", "agree", "disagree",
     "reflect"}
ConsentLevels == {"private", "team", "public"}
LceFields ==
    {"v", "intent", "affect", "meaning", "trust", "memory", "policy", "qos", "trace", "sig"}

HTTPException(status_code, error) ==
    Raise([exception |-> "HTTPException", status_code |-> status_code, error |-> error])
TypeError == Raise([exception |-> "TypeError", status_code |-> 0, error |-> ""])

\* lri.py 73-74: base64.b64decode(b64).decode("utf-8"), then json.loads
DecodeHeader(b64) ==
    IF "base64" \notin DOMAIN b64.val THEN Raise("binascii.Error")
    ELSE IF ~IsUtf8(b64.val.base64) THEN Raise("UnicodeDecodeError")
    ELSE IF "dumps" \notin DOMAIN b64.val.base64.val.utf8.val THEN Raise("JSONDecodeError")
    ELSE Return(b64.val.base64.val.utf8.val.dumps)

\* `key in data`: a key of a dict, an item of a list, a part of a string;
\* None and a number are not iterable
Iterable(data) == data.type \in {"map", "array", "str"}
Contains(data, key) ==
    IF data.type = "map" THEN key \in DOMAIN data.val
    ELSE IF data.type = "array"
    THEN \E i \in DOMAIN data.val : data.val[i].type = "str" /\ data.val[i].val = key
    ELSE data.val = key

IsNumber(value) == value.type = "int"
IsOneOf(value, strings) == value.type = "str" /\ value.val \in strings

\* validator.py 33-36
VersionErrors(data) ==
    IF ~Contains(data, "v") THEN <<"/v">>
    ELSE IF ~(IsNumber(data.val.v) /\ data.val.v.val = 1) THEN <<"/v">>
    ELSE <<>>

\* validator.py 38-65 for intent.type, 67-83 for policy.consent
MemberErrors(data, key, member, allowed) ==
    IF ~Contains(data, key) THEN <<key>>
    ELSE IF data.val[key].type # "map" THEN <<key>>
    ELSE IF member \notin DOMAIN data.val[key].val THEN <<key, member>>
    ELSE IF ~IsOneOf(data.val[key].val[member], allowed) THEN <<key, member>>
    ELSE <<>>

\* validator.py 89, 93: an array of 3 numbers, each in [-1, 1] (in hundredths)
IsPad(pad) ==
    /\ pad.type = "array"
    /\ Len(pad.val) = 3
    /\ \A i \in DOMAIN pad.val : IsNumber(pad.val[i]) /\ pad.val[i].val \in -100..100

\* validator.py 86-99
PadErrors(data) ==
    IF Contains(data, "affect") /\ data.val.affect.type = "map"
          /\ "pad" \in DOMAIN data.val.affect.val /\ ~IsPad(data.val.affect.val.pad)
    THEN <<"/affect/pad">>
    ELSE <<>>

\* validator.py 102-111 (in hundredths)
QosErrors(data) ==
    IF Contains(data, "qos") /\ data.val.qos.type = "map"
          /\ "coherence" \in DOMAIN data.val.qos.val
          /\ ~(IsNumber(data.val.qos.val.coherence)
                  /\ data.val.qos.val.coherence.val \in 0..100)
    THEN <<"/qos/coherence">>
    ELSE <<>>

\* validate_lce (validator.py 17-113): the list of errors, or None; `in` on
\* None or a number and data[key] on a list or a string raise TypeError
validate_lce(data) ==
    IF ~Iterable(data) THEN TypeError
    ELSE IF data.type # "map" /\ \E key \in {"v", "intent", "policy", "affect", "qos"} :
                                    Contains(data, key)
    THEN TypeError
    ELSE LET errors == VersionErrors(data)
                          \o (IF MemberErrors(data, "intent", "type", IntentTypes) = <<>>
                              THEN <<>> ELSE <<"/intent">>)
                          \o (IF MemberErrors(data, "policy", "consent", ConsentLevels) = <<>>
                              THEN <<>> ELSE <<"/policy">>)
                          \o PadErrors(data) \o QosErrors(data)
         IN Return(IF errors = <<>> THEN None ELSE Some(errors))

\* LCE.model_validate (types.py 99-116): a dict with no unknown key, v 1 where
\* given, an intent and a policy of the types, a PAD of 3 values in [-1, 1]
ModelValidates(data) ==
    /\ data.type = "map"
    /\ DOMAIN data.val \subseteq LceFields
    /\ "v" \in DOMAIN data.val => IsNumber(data.val.v) /\ data.val.v.val = 1
    /\ MemberErrors(data, "intent", "type", IntentTypes) = <<>>
    /\ MemberErrors(data, "policy", "consent", ConsentLevels) = <<>>
    /\ "affect" \in DOMAIN data.val =>
          \/ data.val.affect = JsonNull
          \/ /\ data.val.affect.type = "map"
             /\ "pad" \in DOMAIN data.val.affect.val =>
                   data.val.affect.val.pad = JsonNull \/ IsPad(data.val.affect.val.pad)

\* LRI.parse_request (lri.py 43-104) for the value of the header, if any
parse_request(b64, required, validate) ==
    IF b64 = None \/ b64[1] = PlainText("")
    THEN IF required THEN HTTPException(428, "LCE header required") ELSE Return(None)
    ELSE LET decoded == DecodeHeader(b64[1])
         IN IF decoded.raised # None THEN HTTPException(400, "Malformed LCE header")
            ELSE LET errors == IF validate THEN validate_lce(decoded.value) ELSE Return(None)
                 IN IF errors.raised # None THEN errors
                    ELSE IF errors.value # None THEN HTTPException(422, "Invalid LCE")
                    ELSE IF ModelValidates(decoded.value)
                    THEN Return(Some(decoded.value))
                    ELSE HTTPException(422, "LCE validation failed")

\* the JSON objects of a request: each key absent (None) or with one of its values
JsonObject(members) ==
    Map([key \in {k \in DOMAIN members : members[k] # None} |-> members[key][1]])

VersionValues == {None, Some(JsonNumber(1)), Some(JsonNumber(2))}
IntentValues ==
    {None, Some(Str("ask")), Some(Map(EmptyMap)), Some(Map([type |-> Str("invalid-intent")])),
     Some(Map([type |-> Str("ask")]))}
PolicyValues ==
    {None, Some(Map([consent |-> Str("secret")])), Some(Map([consent |-> Str("private")]))}
AffectValues ==
    {None, Some(Map([pad |-> Array(<<JsonNumber(0), JsonNumber(100), JsonNumber(-100)>>)])),
     Some(Map([pad |-> Array(<<JsonNumber(0), JsonNumber(200), JsonNumber(0)>>)]))}
UnexpectedValues == {None, Some(Str("value"))}

JsonObjects ==
    {JsonObject([v |-> v, intent |-> intent, policy |-> policy, affect |-> affect,
                 unexpected |-> unexpected]) :
        v \in VersionValues, intent \in IntentValues, policy \in PolicyValues,
        affect \in AffectValues, unexpected \in UnexpectedValues}

JsonValues ==
    JsonObjects \cup {JsonNull, JsonNumber(5), Str("hello"), Str("v"), Array(<<>>),
                      Array(<<Str("v")>>), Array(<<JsonNumber(1)>>)}

Headers ==
    {None, Some(PlainText("")), Some(PlainText("not-valid-base64!!!")),
     Some(B64Encode(Bytes([junk |-> TRUE]))),
     Some(B64Encode(Utf8(PlainText("{ invalid json }"))))}
        \cup {Some(B64Encode(Utf8(JsonDumps(value)))) : value \in JsonValues}

\* an LRI(validate=...) is asked to parse a request with the header
ParseRequest(b64, required, validate) ==
    /\ verdict' = [op |-> "parse_request", b64 |-> b64, required |-> required,
                   validate |-> validate, result |-> parse_request(b64, required, validate)]
    /\ UNCHANGED <<wire, ws, twin, config, sessions, listeners, now, inflight, last, hist, lastStored,
                   nstores, nupdates>>

InitRequest == InitSign

NextRequest ==
    \E b64 \in Headers, required \in BOOLEAN, validate \in BOOLEAN :
        ParseRequest(b64, required, validate)

SpecRequest == InitRequest /\ [][NextRequest]_vars

----------------------------------------------------------------------------
(* WebSocket frames with a CBOR envelope (lri/cbor.py): 4 bytes of length,
   the envelope, the payload.  Here bytes are sequences of numbers 0..255. *)

MaxPayload == 2

\* cbor2.dumps of a dict, as a code: the map header with the number of keys,
\* then a byte for each key and a byte for its value, keys in one order; one
\* encoding per dict, longer for more keys
CborKeys == <<"intent", "sig", "tags", "topic">>
CborValues(key) ==
    CASE key = "intent" -> <<Str("ask"), Str("tell")>>
      [] key = "topic"  -> <<Str("A")>>
      [] key = "tags"   -> <<Array(<<Some(Str("x"))>>)>>
      [] key = "sig"    -> <<StaleSig>>
CodeOf(table, item) == CHOOSE i \in DOMAIN table : table[i] = item

RECURSIVE CborPairs(_, _)
CborPairs(dict, i) ==
    IF i > Len(CborKeys) THEN <<>>
    ELSE (IF CborKeys[i] \in DOMAIN dict
          THEN <<i, CodeOf(CborValues(CborKeys[i]), dict[CborKeys[i]][1])>>
          ELSE <<>>) \o CborPairs(dict, i + 1)

CborBytes(dict) == <<160 + Cardinality(DOMAIN dict)>> \o CborPairs(dict, 1)

\* the dicts of the model and what cbor2.loads makes of bytes: the dict they
\* encode, or an error
CborDicts == {model_dump(lce) : lce \in ValidEnvelopes}
CborDecoded(data) ==
    IF \E dict \in CborDicts : CborBytes(dict) = data
    THEN Return(CHOOSE dict \in CborDicts : CborBytes(dict) = data)
    ELSE Raise("CBORDecodeError")

\* encode_lce (13-24)
encode_lce(lce) == CborBytes(model_dump(lce))

\* decode_lce (27-52); what is decoded here is a dict, and intent stands for
\* the required fields
decode_lce(data) ==
    IF CborDecoded(data).raised # None THEN Raise("ValueError")
    ELSE IF "intent" \notin DOMAIN CborDecoded(data).value THEN Raise("ValueError")
    ELSE Return([key \in FieldNames |->
                    IF key \in DOMAIN CborDecoded(data).value
                    THEN CborDecoded(data).value[key] ELSE None])

\* int.to_bytes(4, byteorder="big") and int.from_bytes(..., byteorder="big")
RECURSIVE FromBytes(_)
ToBytes4(n) == <<(n \div 16777216) % 256, (n \div 65536) % 256, (n \div 256) % 256, n % 256>>
FromBytes(b) == IF b = <<>> THEN 0 ELSE FromBytes(SubSeq(b, 1, Len(b) - 1)) * 256 + b[Len(b)]

\* encode_frame (55-78): `if payload` is false for None and for b""
encode_frame(lce, payload) ==
    IF payload # None /\ payload[1] # <<>>
    THEN ToBytes4(Len(encode_lce(lce))) \o encode_lce(lce) \o payload[1]
    ELSE ToBytes4(Len(encode_lce(lce))) \o encode_lce(lce)

\* decode_frame (81-112)
decode_frame(frame) ==
    IF Len(frame) < 4 THEN Raise("ValueError")
    ELSE LET lce_length == FromBytes(SubSeq(frame, 1, 4))
         IN IF Len(frame) < 4 + lce_length THEN Raise("ValueError")
            ELSE LET lce == decode_lce(SubSeq(frame, 5, 4 + lce_length))
                     payload == IF Len(frame) > 4 + lce_length
                                THEN Some(SubSeq(frame, 4 + lce_length + 1, Len(frame)))
                                ELSE None
                 IN IF lce.raised # None THEN lce ELSE Return(<<lce.value, payload>>)

PayloadBytes == {0, 255}
Payloads ==
    {None} \cup {Some(bytes) : bytes \in UNION {[1..n -> PayloadBytes] : n \in 0..MaxPayload}}

\* a frame is made of an envelope and a payload
EncodeFrame(lce, payload) ==
    /\ wire = NoWire
    /\ wire' = [form |-> "frame", lce |-> lce, payload |-> payload,
                frame |-> encode_frame(lce, payload), changes |-> 0]
    /\ UNCHANGED <<verdict, ws, twin, config, sessions, listeners, now, inflight, last, hist,
                   lastStored, nstores, nupdates>>

\* the frame arrives cut short: its first n bytes
CutFrame(n) ==
    /\ wire.form = "frame"
    /\ wire.changes = 0
    /\ n < Len(wire.frame)
    /\ wire' = [wire EXCEPT !.frame = SubSeq(@, 1, n), !.changes = 1]
    /\ UNCHANGED <<verdict, ws, twin, config, sessions, listeners, now, inflight, last, hist,
                   lastStored, nstores, nupdates>>

\* the frame at hand is decoded
DecodeFrame ==
    /\ wire.form = "frame"
    /\ verdict' = [op |-> "decode_frame", frame |-> wire.frame,
                   result |-> decode_frame(wire.frame)]
    /\ UNCHANGED <<wire, ws, twin, config, sessions, listeners, now, inflight, last, hist,
                   lastStored, nstores, nupdates>>

InitFrame == InitSign

NextFrame ==
    \/ \E lce \in ValidEnvelopes, payload \in Payloads : EncodeFrame(lce, payload)
    \/ \E n \in 0..(4 + 2 * Len(CborKeys) + MaxPayload) : CutFrame(n)
    \/ DecodeFrame

SpecFrame == InitFrame /\ [][NextFrame]_vars

----------------------------------------------------------------------------
(* Claims about the session history and the session lifecycle *)

LastK(seq, k) == SubSeq(seq, Len(seq) - Min(Len(seq), k) + 1, Len(seq))

\* C1: for every max_messages = N >= 0, after each store() the session's message
\* list holds at most N messages and equals the last min(k, N) messages stored
\* since the session was created, in arrival order.
C1_TrimKeepsLastN ==
    \A k \in DOMAIN sessions :
        /\ Len(sessions[k].messages) <= max_messages
        /\ sessions[k].messages = LastK(hist[k], max_messages)

\* C1 for N >= 1: what the trim does keep when max_messages is positive.
C1_TrimKeepsLastNPositive == max_messages >= 1 => C1_TrimKeepsLastN

C1_Trimmed ==
    /\ last.op = "store"
    /\ max_messages >= 1
    /\ Len(hist[last.thread]) > max_messages
    /\ Len(sessions[last.thread].messages) = max_messages

\* the drift events a thread's session holds
EventsOf(store, thread_id) ==
    IF thread_id \in DOMAIN store THEN store[thread_id].metrics.drift_events ELSE <<>>

\* the coherence-drop condition on the previous and the new overall value
DropCondition(previous, new) ==
    new < drift_min_coherence /\ previous - new >= drift_drop_threshold

\* the topics of the last K messages, of those that carry one
WindowTopics(messages, K) ==
    LET carrying == SelectSeq(LastK(messages, K), LAMBDA m : m.lce.topic # None)
    IN [i \in DOMAIN carrying |-> carrying[i].lce.topic[1]]

\* the topic-shift condition on a list of topics
ShiftCondition(T) ==
    Len(T) >= 3 /\ Cardinality(Range(T)) >= Min(Len(T), 3)

IsEvent(event, type) == event # None /\ event[1].type = type

C3_CoherenceDropRule ==
    last.op = "store" /\ last.recomputed =>
        LET metrics == sessions[last.thread].metrics
            previous == metrics.previous_coherence[1].overall
            new == metrics.coherence.overall
            drop == previous - new
        IN /\ IsEvent(last.event, "coherence_drop") <=> DropCondition(previous, new)
           /\ IsEvent(last.event, "coherence_drop") =>
                 /\ last.event[1].severity =
                       IF drop > (4 * Scale) \div 10 THEN "high"
                       ELSE IF drop > Scale \div 4 THEN "medium" ELSE "low"
                 /\ last.event[1].details = [previous |-> previous, current |-> new]

C3_MediumDrop ==
    /\ last.op = "store"
    /\ IsEvent(last.event, "coherence_drop")
    /\ last.event[1].severity = "medium"

C5_RecomputeFromTwoMessages ==
    last.op = "store" /\ last.thread \in DOMAIN sessions =>
        LET session == sessions[last.thread]
        IN /\ last.recomputed <=> Len(session.messages) >= 2
           /\ impl # "dict" /\ last.recomputed => session.metrics.previous_coherence # None
           /\ last.created =>
                 /\ session.coherence = Scale
                 /\ impl # "dict" =>
                       /\ session.metrics.coherence = CoherenceResult(Scale, Scale, Scale, Scale)
                       /\ session.metrics.previous_coherence = None
                       /\ session.metrics.drift_events = <<>>

C5_Recomputed ==
    /\ last.op = "store"
    /\ last.recomputed
    /\ ~last.created
    /\ Len(sessions[last.thread].messages) = 2
    /\ sessions[last.thread].coherence < Scale

IsPrefix(s, t) == Len(s) <= Len(t) /\ SubSeq(t, 1, Len(s)) = s

\* the threads whose session lives through a step: there before and after it,
\* and not evicted and created anew by it
LivesOn(before, after, step) ==
    {k \in (DOMAIN before) \cap (DOMAIN after) :
        ~(step.op = "store" /\ step.thread = k /\ step.created)}

\* C12: the drift events of a live session are append-only: after any store()
\* or update_metrics() call the previous drift_events sequence is a prefix of
\* the new one (so no recorded event is changed or dropped).
C12_DriftEventsAppendOnly ==
    [][last'.op \in {"store", "update_metrics"} =>
          \A k \in LivesOn(sessions, sessions', last') :
              IsPrefix(EventsOf(sessions, k), EventsOf(sessions', k))]_vars

\* C12 for store() alone
C12_StoreAppendsOnly ==
    [][last'.op = "store" =>
          \A k \in LivesOn(sessions, sessions', last') :
              IsPrefix(EventsOf(sessions, k), EventsOf(sessions', k))]_vars

\* what a store() or update_metrics() step on one thread may do to the session
\* of another thread B: nothing, or (store only) its eviction once B's time
\* to live has elapsed
OthersUntouched(step) ==
    \A B \in Threads \ {step.thread} :
        IF B \in DOMAIN sessions
        THEN \/ B \in DOMAIN sessions' /\ sessions'[B] = sessions[B]
             \/ /\ B \notin DOMAIN sessions'
                /\ step.op = "store"
                /\ now - UpdatedAt(sessions[B]) > session_ttl
        ELSE B \notin DOMAIN sessions'

\* C13: a session is owned by its thread id alone: store(A, ...) and
\* update_metrics(A, ...) leave the session of every other thread B as it was
\* (or evict it once B's own TTL has elapsed), and every drift event in A's
\* session after the call carries thread id A.
C13_SessionOwnedByThread ==
    [][last'.op \in {"store", "update_metrics"} =>
          /\ OthersUntouched(last')
          /\ LET events == EventsOf(sessions', last'.thread)
             IN  \A i \in DOMAIN events : events[i].thread_id = last'.thread]_vars

\* C13, the part about the other threads' sessions
C13_OtherSessionsUntouched ==
    [][last'.op \in {"store", "update_metrics"} => OthersUntouched(last')]_vars

\* the positions in what a call did so far at which it did op
Positions(call, op) == {i \in DOMAIN call.did : call.did[i].op = op}

\* C14: every store() call performs at most one storage.load and at most one
\* storage.save, both for the thread id being stored, with the load before
\* every write to the session and the save after all of them.
C14_OneLoadOneSave ==
    \A c \in DOMAIN calls :
        LET call == calls[c]
            loads  == Positions(call, "load")
            saves  == Positions(call, "save")
            writes == Positions(call, "write")
        IN  /\ Cardinality(loads) <= 1
            /\ Cardinality(saves) <= 1
            /\ \A i \in loads \cup saves : call.did[i].key = Some(call.thread_id)
            /\ \A i \in loads, j \in writes \cup saves : i < j
            /\ \A i \in writes, j \in saves : i < j
            /\ writes # {} => loads # {}

\* a store() on a session that was there ran to its end: one load, the message
\* and the metrics written, one save
C14_StoredWithLoadAndSave ==
    \E c \in DOMAIN calls :
        /\ calls[c].pc = "done"
        /\ calls[c].thread_id \in DOMAIN calls[c].before
        /\ [i \in DOMAIN calls[c].did |-> calls[c].did[i].op] =
               <<"cleanup", "load", "write", "write", "save">>

\* the store's content changes only in the steps of a call that are calls of
\* storage.cleanup or storage.save, or writes to an object the memory store holds
C14_StoreChangesWithStatements ==
    [][sessions' # sessions =>
          \E c \in DOMAIN calls :
              /\ Len(calls'[c].did) = Len(calls[c].did) + 1
              /\ LET done == calls'[c].did[Len(calls'[c].did)]
                 IN  \/ done.op \in {"cleanup", "save"}
                     \/ done.op = "write" /\ backend = "memory"]_vars

\* the store() calls on a thread that ran to their end
Completed(thread_id) ==
    {c \in DOMAIN calls : calls[c].thread_id = thread_id /\ calls[c].pc = "done"}

\* C6: concurrent store() calls on one thread id are serialized: whatever the
\* interleaving of their load / mutate / save steps, once they have completed
\* the session contains the message of each of them and its coherence is the
\* one computed from that history; no message is lost to a later save.
C6_ConcurrentStoresSerialized ==
    InFlight = {} =>
        \A k \in Threads :
            Completed(k) # {} =>
                LET session == get_session(k)
                IN /\ session # None
                   /\ Len(session[1].messages) = Cardinality(Completed(k))
                   /\ Cardinality(Completed(k)) >= 2 =>
                         session[1].metrics.coherence = calculate_coherence(session[1].messages)

\* C7: a store() call cut short (cancelled, ended by a listener's exception or by
\* a failure of the storage) leaves, for get_session, either the session as it
\* was before the call or the session as the whole call would have left it.
C7_AllOrNothing ==
    \A c \in DOMAIN calls :
        c = Len(calls) /\ calls[c].pc \in {"cancelled", "raised", "failed"} =>
            LET call == calls[c]
                whole == LpiStore(call.before, call.thread_id, call.lce, None, call.t)
            IN get_session(call.thread_id) \in
                  {StorageLoad(call.before, call.thread_id, now),
                   StorageLoad(whole.store, call.thread_id, now)}

\* C8: get_session(t) returns a session exactly when a store(t, ...) happened
\* since the last delete_session(t), clear() or TTL eviction of t; get_session
\* creates nothing; delete_session(t) returns true exactly when a session for t
\* existed, and leaves none.
C8_SessionLifecycle ==
    /\ [](\A k \in Threads : get_session(k) # None <=> lastStored[k] # None)
    /\ [](last.op = "get_session" =>
              (last.ret # None <=> lastStored[last.thread] # None))
    /\ [][last'.op = "get_session" => sessions' = sessions]_vars
    /\ [][last'.op = "delete_session" =>
              /\ last'.ret = Some(last'.thread \in DOMAIN sessions)
              /\ last'.thread \notin DOMAIN sessions']_vars

C8_DeletedThenAbsent ==
    /\ last.op = "delete_session"
    /\ last.ret = Some(TRUE)
    /\ get_session(last.thread) = None
    /\ \E k \in Threads : get_session(k) # None

\* C9: after a cleanup pass at time now with TTL ttl on an in-process store, no
\* remaining session has now - updated_at > ttl, every session with
\* now - updated_at <= ttl is retained unchanged, and cleanup_expired of the
\* dict-based LSS returns the number of sessions it removed.
C9_CleanupPass ==
    [][last'.op = "cleanup" =>
          /\ \A k \in DOMAIN sessions' : now - UpdatedAt(sessions'[k]) <= session_ttl
          /\ \A k \in DOMAIN sessions :
                now - UpdatedAt(sessions[k]) <= session_ttl =>
                    k \in DOMAIN sessions' /\ sessions'[k] = sessions[k]
          /\ impl = "dict" =>
                last'.ret = Some(Cardinality((DOMAIN sessions) \ (DOMAIN sessions')))]_vars

C9_CleanedOneKeptOne ==
    /\ last.op = "cleanup"
    /\ Cardinality(last.evicted) = 1
    /\ Cardinality(DOMAIN sessions) = 1

\* C10: with the in-process backend no access operation (store, get_session,
\* get_all_sessions, get_metrics) ever returns a session whose time since its
\* last update exceeds the TTL at the moment of the call.
C10_NoExpiredSessionReturned ==
    impl \in {"lpi", "lri"} =>
        /\ last.op \in {"get_session", "get_metrics"} /\ last.ret # None =>
              now - UpdatedAt(sessions[last.thread]) <= session_ttl
        /\ last.op = "get_all_sessions" =>
              \A session \in last.ret[1] : now - UpdatedAt(session) <= session_ttl
        /\ last.op = "store" =>
              now - UpdatedAt(sessions[last.thread]) <= session_ttl

----------------------------------------------------------------------------
(* Claims about signing and verification *)

\* an untouched artefact verified with the key of the keypair that signed it
\* and with no external_aad on either side
VerifiedAsSigned ==
    /\ verdict.op = "verify"
    /\ wire.changes = 0
    /\ verdict.k = wire.k
    /\ wire.external_aad = None
    /\ verdict.external_aad = None

\* C15: for every valid envelope E, keypair and optional key_id,
\* verify_cose_sign1(create_cose_sign1(E, priv, key_id), pub) returns (E with sig
\* removed, key_id), the key id as the bytes of the one given, and
\* verify_signed_lce(sign_lce(E, priv), pub) and ltp.verify(ltp.sign(E, priv), pub)
\* are true.
C15_RoundTrip ==
    VerifiedAsSigned =>
        CASE wire.form = "cose" ->
                 /\ verdict.result.raised = None
                 /\ verdict.result.value.lce = [wire.lce EXCEPT !.sig = None]
                 /\ verdict.result.value.key_id = _to_bytes(wire.key_id)
          [] wire.form \in {"embedded", "jws"} -> verdict.result = Return(TRUE)
          [] OTHER -> TRUE

\* C15 for the key ids that are absent or not empty
C15_RoundTripNonEmptyKeyId ==
    VerifiedAsSigned /\ (wire.key_id = None \/ Truthy(_to_bytes(wire.key_id))) =>
        CASE wire.form = "cose" ->
                 /\ verdict.result.raised = None
                 /\ verdict.result.value.lce = [wire.lce EXCEPT !.sig = None]
                 /\ verdict.result.value.key_id = _to_bytes(wire.key_id)
          [] wire.form \in {"embedded", "jws", "jcs"} -> verdict.result = Return(TRUE)
          [] OTHER -> TRUE

\* what the signing call of the wire returned
AsSigned == Signed(wire.form, wire.lce, PrivateKey(wire.k), wire.key_id, wire.external_aad)

\* the envelope at hand carries the signature it was given at signing, and a
\* field other than sig differs from what was signed
TamperedUnderOriginalSig ==
    /\ wire.form \in {"embedded", "jws", "jcs"}
    /\ GetSig(wire.artefact) # None
    /\ GetSig(wire.artefact) = GetSig(AsSigned)
    /\ StripSig(wire.artefact) # StripSig(AsSigned)

\* C16: for every signed envelope, changing the value of any field other than
\* sig (altering, adding or removing it) and verifying the result against the
\* original embedded signature returns false, in the embedded binary form
\* (verify_signed_lce) and in the compact text form (ltp.verify), whatever key
\* and external_aad are used.
C16_TamperDetected ==
    verdict.op = "verify" /\ TamperedUnderOriginalSig =>
        verdict.result = Return(FALSE)

\* C16 for the changes that show in the canonical form of the binary form (the
\* cleaned fields), and for every change in the compact and detached forms
C16_CanonicalChangeDetected ==
    /\ verdict.op = "verify"
    /\ TamperedUnderOriginalSig
    /\ wire.form = "embedded" => _normalize_lce(wire.artefact) # _normalize_lce(AsSigned)
    => verdict.result = Return(FALSE)

\* the verification answered that the artefact is not verified: the boolean
\* functions returned False or raised, verify_cose_sign1 raised
Rejected ==
    IF wire.form = "cose"
    THEN verdict.result.raised # None
    ELSE verdict.result.raised # None \/ verdict.result.value = FALSE

\* C17: a signature made with the private key of keypair k1 is rejected when
\* verified with the public key of another keypair k2: the boolean verify
\* functions return false, verify_cose_sign1 raises CoseError, and nothing is
\* returned as verified, whatever else was done to the artefact.
C17_OtherKeyRejected ==
    verdict.op = "verify" /\ verdict.k # wire.k =>
        /\ Rejected
        /\ wire.changes = 0 =>
              verdict.result = IF wire.form = "cose" THEN Raise("CoseError") ELSE Return(FALSE)

\* a COSE_Sign1 structure as signed by k1 was verified with k2's public key and
\* with the external_aad of the signing
C17_VerifiedWithOtherKey ==
    /\ verdict.op = "verify"
    /\ wire.form = "cose"
    /\ wire.changes = 0
    /\ wire.k = "k1"
    /\ verdict.k = "k2"
    /\ verdict.external_aad = wire.external_aad
    /\ verdict.result = Raise("CoseError")

\* C18: verification fails for every signed structure whose header declares an
\* algorithm other than EdDSA, or whose shape is wrong (not the expected number
\* of elements or segments, or not of the expected types), in the binary forms
\* and in the compact text form, whatever the signature bytes are and whatever
\* key verifies.
C18_WrongAlgorithmOrShapeRejected ==
    /\ verdict.op = "verify"
    /\ wire.form \in {"cose", "embedded", "jws"}
    /\ wire.cause \in {"alg", "alg_signed", "malformed", "shape", "type"}
    => Rejected

\* C18 for the binary forms, and for the shape of the compact form
C18_BinaryFormRejects ==
    /\ verdict.op = "verify"
    /\ \/ wire.form \in BinaryForms /\ wire.cause \in {"alg", "alg_signed", "malformed", "shape", "type"}
       \/ wire.form = "jws" /\ wire.cause \in {"malformed", "shape"}
    => Rejected

\* C19: the convenience verify functions (verify_signed_lce, ltp.verify,
\* verify_lce) return false, and never raise, for every signature failure
\* cause: no sig field, a sig that does not decode to a well-formed signed
\* structure, an unsupported algorithm, a signature that does not verify.
C19_ConvenienceVerifyReturnsFalse ==
    /\ verdict.op = "verify"
    /\ wire.form \in {"embedded", "jws", "jcs"}
    /\ wire.cause \in {"nosig", "malformed", "shape", "type", "alg", "badsig"}
    => verdict.result = Return(FALSE)

\* C19 for the text forms, and for a signature that does not verify in the
\* embedded form
C19_TextFormsReturnFalse ==
    /\ verdict.op = "verify"
    /\ \/ wire.form \in {"jws", "jcs"} /\ wire.cause \in {"nosig", "malformed", "shape", "alg", "badsig"}
       \/ wire.form = "embedded" /\ wire.cause = "badsig"
    => verdict.result = Return(FALSE)

\* an external_aad argument as a byte string: an omitted one is the empty one
AadOf(external_aad) == IF external_aad = None THEN Bytes("") ELSE external_aad[1]

\* the verification accepted the artefact
Accepted ==
    IF wire.form = "cose"
    THEN verdict.result.raised = None
    ELSE verdict.result = Return(TRUE)

\* C20: a binary-form signature created with external_aad = A verifies (with
\* the public key of the signing keypair) with external_aad = B if and only if
\* A = B, an omitted external_aad counting as the empty byte string; for
\* verify_cose_sign1 and for verify_signed_lce.
C20_AadBindsSignature ==
    /\ verdict.op = "verify"
    /\ wire.form \in BinaryForms
    /\ wire.changes = 0
    /\ verdict.k = wire.k
    => (Accepted <=> AadOf(verdict.external_aad) = AadOf(wire.external_aad))

\* an embedded signature made with one external_aad was verified with another
\* one, neither empty, and was rejected
C20_OtherAadRejected ==
    /\ verdict.op = "verify"
    /\ wire.form = "embedded"
    /\ wire.changes = 0
    /\ verdict.k = wire.k
    /\ wire.external_aad = Some(Bytes("session"))
    /\ verdict.external_aad = Some(Bytes("other"))
    /\ verdict.result = Return(FALSE)

\* a COSE_Sign1 signature made with no external_aad verified with b""
C20_OmittedIsEmpty ==
    /\ verdict.op = "verify"
    /\ wire.form = "cose"
    /\ wire.changes = 0
    /\ verdict.k = wire.k
    /\ wire.external_aad = None
    /\ verdict.external_aad = Some(Bytes(""))
    /\ verdict.result.raised = None

\* the content of an envelope: its fields other than sig
Content(lce) == [field \in PayloadFields |-> lce[field]]

\* C21: sign is a deterministic function of the envelope content without sig,
\* the private key, the key_id and the external_aad: a second sign call with
\* the same key, key_id and external_aad on an envelope of the same content,
\* whether it carries a sig or not, returns what the first call returned.
C21_SignDeterministic ==
    verdict.op = "sign" /\ Content(verdict.lce) = Content(wire.lce) =>
        verdict.result = Return(wire.artefact)

\* an envelope signed without a sig was signed again carrying one, in the
\* embedded form, and the same signed envelope came back
C21_SignedAgainWithSig ==
    /\ verdict.op = "sign"
    /\ wire.form = "embedded"
    /\ wire.lce.sig = None
    /\ verdict.lce = [wire.lce EXCEPT !.sig = Some(StaleSig)]
    /\ verdict.result = Return(wire.artefact)

\* C21, the other direction: envelopes of different content get different
\* signatures under the same key, key_id and external_aad
C21_OtherContentOtherSignature ==
    verdict.op = "sign" /\ Content(verdict.lce) # Content(wire.lce) =>
        verdict.result # Return(wire.artefact)

\* a score between 0 and 1
InUnit(score) == 0 <= score /\ score <= Scale

\* C22: for every message window, each of overall, intent_similarity,
\* affect_stability and semantic_alignment returned by calculate_coherence
\* lies in [0, 1].
C22_ComponentsInUnitInterval ==
    verdict.op = "calculate_coherence" =>
        /\ InUnit(verdict.result.overall)
        /\ InUnit(verdict.result.intent_similarity)
        /\ InUnit(verdict.result.affect_stability)
        /\ InUnit(verdict.result.semantic_alignment)
        /\ ~FLess(FOne, verdict.intent_similarity)

\* C22, the part on what is stored: the coherence of a session, clamped, lies
\* in [0, 1] after any sequence of store() calls
C22_StoredCoherenceInUnitInterval ==
    \A thread_id \in DOMAIN sessions : InUnit(sessions[thread_id].coherence)

\* C22 for the scores rounded to four decimals
C22_RoundedComponentsInUnitInterval ==
    verdict.op = "calculate_coherence" =>
        /\ InUnit(verdict.result.overall)
        /\ InUnit(verdict.result.intent_similarity)
        /\ InUnit(verdict.result.affect_stability)
        /\ InUnit(verdict.result.semantic_alignment)

\* C23: for every window of at least 2 messages, overall equals
\* min(1, max(0, 0.4 * intent_similarity + 0.3 * affect_stability
\* + 0.3 * semantic_alignment)) of the three components returned in the same
\* CoherenceResult.
C23_OverallIsWeightedSum ==
    verdict.op = "calculate_coherence" /\ Len(verdict.messages) >= 2 =>
        verdict.result.overall =
            Min(Scale, Max(0, (4 * verdict.result.intent_similarity
                                 + 3 * verdict.result.affect_stability
                                 + 3 * verdict.result.semantic_alignment) \div 10))

\* a window of two messages whose three components differ from each other
\* and from 1, and its overall score
C23_WeightedDistinctComponents ==
    /\ verdict.op = "calculate_coherence"
    /\ Len(verdict.messages) = 2
    /\ coherence_window = 2
    /\ verdict.result.semantic_alignment < Scale
    /\ verdict.result.affect_stability < verdict.result.intent_similarity
    /\ verdict.result.intent_similarity < verdict.result.semantic_alignment
    /\ 0 < verdict.result.overall
    /\ verdict.result.overall * 10 <= 4 * verdict.result.intent_similarity
                                        + 3 * verdict.result.affect_stability
                                        + 3 * verdict.result.semantic_alignment

\* the topics of the messages of a window that carry one (a topic string that
\* is not empty), in order
TopicsCarried(window) ==
    LET carrying == SelectSeq(window, LAMBDA m : m.lce.topic \notin {None, Some("")})
    IN [i \in DOMAIN carrying |-> carrying[i].lce.topic[1]]

\* the window calculate_coherence took for the call recorded in verdict
WindowTaken == SliceLast(verdict.messages, coherence_window)

\* C24: semantic_alignment equals 1 divided by the number of distinct topic
\* strings among the topic-bearing messages of the window when at least 2
\* messages carry a topic, so it is 1.0 exactly when they all share one topic,
\* and it is 1.0 when fewer than 2 messages carry a topic.
C24_SemanticAlignment ==
    verdict.op = "calculate_coherence" =>
        /\ Len(TopicsCarried(WindowTaken)) >= 2 =>
              /\ verdict.result.semantic_alignment =
                     Scale \div Cardinality(Range(TopicsCarried(WindowTaken)))
              /\ verdict.result.semantic_alignment = Scale
                     <=> Cardinality(Range(TopicsCarried(WindowTaken))) = 1
        /\ Len(TopicsCarried(WindowTaken)) < 2 => verdict.result.semantic_alignment = Scale

\* a window of three messages with the topics A, B, A: two distinct topics
C24_TwoTopicsInThree ==
    /\ verdict.op = "calculate_coherence"
    /\ TopicsCarried(WindowTaken) = <<"A", "B", "A">>
    /\ verdict.result.semantic_alignment = Scale \div 2

\* a window with two messages of one topic and one with the empty topic
C24_EmptyTopicNotCounted ==
    /\ verdict.op = "calculate_coherence"
    /\ Len(WindowTaken) = 3
    /\ TopicsCarried(WindowTaken) = <<"A", "A">>
    /\ \E i \in DOMAIN WindowTaken : WindowTaken[i].lce.topic = Some("")
    /\ verdict.result.semantic_alignment = Scale

\* the message histories of up to MaxCoherenceStores stored envelopes
Histories ==
    UNION {[1..n -> {LSSMessage(lce, None, 0) : lce \in CoherenceEnvelopes}] :
              n \in 0..MaxCoherenceStores}

\* C25: calculate_coherence depends only on the last W = coherence_window
\* messages of the history: for every W >= 0, a history whose last W messages
\* are those of the history of the call gets the same CoherenceResult.
C25_DependsOnLastWindow ==
    verdict.op = "calculate_coherence" =>
        \A history \in Histories :
            LastK(history, coherence_window) = LastK(verdict.messages, coherence_window) =>
                calculate_coherence(history) = verdict.result

\* C25 for the windows of at least one message
C25_PositiveWindow ==
    verdict.op = "calculate_coherence" /\ coherence_window >= 1 =>
        \A history \in Histories :
            LastK(history, coherence_window) = LastK(verdict.messages, coherence_window) =>
                calculate_coherence(history) = verdict.result

\* the PADs of the messages of a window that carry one
PadsCarried(window) ==
    LET carrying == SelectSeq(window, LAMBDA m : m.lce.pad # None)
    IN [i \in DOMAIN carrying |-> carrying[i].lce.pad[1]]

Neutral == CoherenceResult(Scale, Scale, Scale, Scale)

\* C26: coherence computation and drift detection return for every session
\* of valid envelopes, whatever of affect, pad, meaning and topic is absent:
\* calculate_coherence returns four scores; with fewer than 2 messages all
\* four are 1.0; with fewer than 2 messages carrying a PAD affect_stability
\* is 1.0; with fewer than 2 carrying a topic semantic_alignment is 1.0; and
\* a store() reports no topic_shift with fewer than 3 topics in its window,
\* and no coherence_drop when the window lacks both two PADs and two topics.
C26_NeutralOnMissingData ==
    /\ verdict.op = "calculate_coherence" =>
          /\ DOMAIN verdict.result = DOMAIN Neutral
          /\ \A score \in DOMAIN Neutral : verdict.result[score] \in 0..Scale
          /\ Len(verdict.messages) < 2 => verdict.result = Neutral
          /\ Len(PadsCarried(WindowTaken)) < 2 => verdict.result.affect_stability = Scale
          /\ Len(PadsCarried(verdict.messages)) < 2 => verdict.result.affect_stability = Scale
          /\ Len(TopicsCarried(WindowTaken)) < 2 => verdict.result.semantic_alignment = Scale
          /\ Len(TopicsCarried(verdict.messages)) < 2 =>
                 verdict.result.semantic_alignment = Scale
    /\ last.op = "store" /\ last.thread \in DOMAIN sessions =>
          LET messages == sessions[last.thread].messages
              window == SliceLast(messages, coherence_window)
              recent == SliceLast(messages, topic_shift_window)
          IN /\ last.event = None \/ DOMAIN last.event[1] = DOMAIN DriftEvent("", "", "", 0, <<>>)
             /\ Len(TopicsCarried(recent)) < 3 => ~IsEvent(last.event, "topic_shift")
             /\ Len(PadsCarried(window)) < 2 /\ Len(TopicsCarried(window)) < 2 =>
                    ~IsEvent(last.event, "coherence_drop")

\* three messages of which one carries a PAD and a topic, one carries neither
\* affect nor meaning and one an empty topic: the scores for affect and topic
\* are 1.0, the intents differ, and the store reported no drift
C26_OnePadOneTopic ==
    /\ verdict.op = "calculate_coherence"
    /\ Len(WindowTaken) = 3
    /\ Len(PadsCarried(WindowTaken)) = 1
    /\ Len(TopicsCarried(WindowTaken)) = 1
    /\ \E i \in DOMAIN WindowTaken : WindowTaken[i].lce.topic = Some("")
    /\ \E i \in DOMAIN WindowTaken : WindowTaken[i].lce.topic = None
    /\ verdict.result.affect_stability = Scale
    /\ verdict.result.semantic_alignment = Scale
    /\ verdict.result.intent_similarity < Scale
    /\ last.op = "store" /\ last.recomputed /\ last.event = None

\* a store() that reports a coherence drop: both PADs and topics are there
C26_DropWithData ==
    /\ last.op = "store"
    /\ IsEvent(last.event, "coherence_drop")

\* the step a frame names, "lce" for one that names none
StepOf(frame) == IF "step" \in DOMAIN frame THEN frame.step ELSE "lce"

\* the positions in the log at which a side did act on a frame of the step
Steps(side, act, step) ==
    {i \in DOMAIN ws.log : /\ ws.log[i].side = side
                           /\ ws.log[i].act = act
                           /\ StepOf(ws.log[i].frame) = step}

Before(earlier, later) == \A i \in later : \E j \in earlier : j < i

\* the handshake messages in the order in which they were sent
HandshakeSent ==
    LET sent == SelectSeq(ws.log, LAMBDA e : e.act = "send" /\ StepOf(e.frame) # "lce")
    IN [i \in DOMAIN sent |-> sent[i].frame.step]

\* C27: on one connection the handshake is the strict sequence Hello, Mirror,
\* Bind, Seal: the server sends no Mirror before it has received Hello and no
\* Seal before it has received Bind, the client sends no Bind before it has
\* received Mirror, and neither side hands an LCE to on_message before Seal
\* has been sent.
C27_StrictHandshake ==
    /\ IsPrefix(HandshakeSent, <<"hello", "mirror", "bind", "seal">>)
    /\ Before(Steps("server", "recv", "hello"), Steps("server", "send", "mirror"))
    /\ Before(Steps("server", "recv", "bind"), Steps("server", "send", "seal"))
    /\ Before(Steps("client", "recv", "mirror"), Steps("client", "send", "bind"))
    /\ Before(Steps("server", "send", "seal"),
              Steps("server", "deliver", "lce") \cup Steps("client", "deliver", "lce"))

\* the client sent no LCE before connect() had returned
SendsAfterConnect ==
    Before(Steps("client", "recv", "seal"), Steps("client", "send", "lce"))

\* C27 for a client that sends its first LCE after connect() has returned
C27_StrictWhenSendingAfterConnect == SendsAfterConnect => C27_StrictHandshake

\* C27 but for the Seal: whatever the client sends, Mirror follows Hello, Bind
\* follows Mirror and no LCE is delivered before Seal has been sent
C27_AllButSealAfterBind ==
    /\ Before(Steps("server", "recv", "hello"), Steps("server", "send", "mirror"))
    /\ Before(Steps("client", "recv", "mirror"), Steps("client", "send", "bind"))
    /\ Before(Steps("server", "send", "seal"),
              Steps("server", "deliver", "lce") \cup Steps("client", "deliver", "lce"))

\* a handshake completed in order, after which each side delivered an LCE
C27_HandshakeThenMessages ==
    /\ SendsAfterConnect
    /\ HandshakeSent = <<"hello", "mirror", "bind", "seal">>
    /\ Steps("server", "deliver", "lce") # {}
    /\ Steps("client", "deliver", "lce") # {}

\* the JSON value a header is the base64 of, if it is one
JsonOf(b64) ==
    IF /\ "base64" \in DOMAIN b64.val
       /\ "utf8" \in DOMAIN b64.val.base64.val
       /\ "dumps" \in DOMAIN b64.val.base64.val.utf8.val
    THEN Some(b64.val.base64.val.utf8.val.dumps)
    ELSE None

HeaderGiven == verdict.b64 # None /\ verdict.b64[1] # PlainText("")

\* the outcome of parse_request by the order of C28, given whether the JSON
\* value has schema errors and whether it fails model validation
Decided(schema_errors, model_failure) ==
    IF ~HeaderGiven
    THEN IF verdict.required THEN HTTPException(428, "LCE header required") ELSE Return(None)
    ELSE IF JsonOf(verdict.b64[1]) = None THEN HTTPException(400, "Malformed LCE header")
    ELSE IF verdict.validate /\ schema_errors THEN HTTPException(422, "Invalid LCE")
    ELSE IF model_failure THEN HTTPException(422, "LCE validation failed")
    ELSE Return(JsonOf(verdict.b64[1]))

\* C28: parse_request decides in a fixed order and has no other outcome: no
\* header or an empty one gives None, or 428 when required; a header that is
\* not base64 of UTF-8 JSON gives 400; with validation enabled schema errors
\* give 422 'Invalid LCE'; a model-validation failure gives 422 'LCE
\* validation failed'; otherwise the parsed envelope is returned.
C28_FixedOrder ==
    verdict.op = "parse_request" =>
        \E schema_errors \in BOOLEAN, model_failure \in BOOLEAN :
            verdict.result = Decided(schema_errors, model_failure)

\* C28 for the headers that carry a JSON object, and with validation disabled
C28_FixedOrderForObjects ==
    /\ verdict.op = "parse_request"
    /\ HeaderGiven
    /\ \/ ~verdict.validate
       \/ JsonOf(verdict.b64[1]) = None
       \/ JsonOf(verdict.b64[1])[1].type = "map"
    => \E schema_errors \in BOOLEAN, model_failure \in BOOLEAN :
           verdict.result = Decided(schema_errors, model_failure)

\* the header is the base64 of the JSON text null, validation is enabled:
\* the call ends in a TypeError
C28_NullRaisesTypeError ==
    /\ verdict.op = "parse_request"
    /\ verdict.validate
    /\ HeaderGiven
    /\ JsonOf(verdict.b64[1]) = Some(JsonNull)
    /\ verdict.result = TypeError

\* the frame at hand is the one encode_frame made, and it has been decoded
DecodedAsEncoded ==
    /\ verdict.op = "decode_frame"
    /\ wire.form = "frame"
    /\ wire.changes = 0

\* a frame shorter than 4 bytes, or than 4 + the length it declares, was decoded
TooShort ==
    /\ verdict.op = "decode_frame"
    /\ \/ Len(verdict.frame) < 4
       \/ Len(verdict.frame) < 4 + FromBytes(SubSeq(verdict.frame, 1, 4))

\* C29: for every envelope and every payload p, absent or any byte string,
\* decode_frame(encode_frame(lce, p)) returns an envelope equal to lce and a
\* payload equal to p, the first 4 bytes of the frame being the big-endian
\* length of the encoded envelope; a frame shorter than 4 bytes or shorter
\* than 4 + the declared length is rejected with ValueError.
C29_FrameRoundTrip ==
    /\ DecodedAsEncoded =>
          /\ verdict.result = Return(<<wire.lce, wire.payload>>)
          /\ SubSeq(wire.frame, 1, 4) = ToBytes4(Len(encode_lce(wire.lce)))
    /\ TooShort => verdict.result = Raise("ValueError")

\* C29 for the payloads that are absent or hold at least one byte
C29_RoundTripButEmptyPayload ==
    /\ DecodedAsEncoded /\ wire.payload # Some(<<>>) =>
          /\ verdict.result = Return(<<wire.lce, wire.payload>>)
          /\ SubSeq(wire.frame, 1, 4) = ToBytes4(Len(encode_lce(wire.lce)))
    /\ TooShort => verdict.result = Raise("ValueError")

\* the payload b"" comes back as None
C29_EmptyPayloadComesBackNone ==
    /\ DecodedAsEncoded
    /\ wire.payload = Some(<<>>)
    /\ verdict.result = Return(<<wire.lce, None>>)

\* a payload of two bytes comes back, after an envelope with every field
C29_PayloadComesBack ==
    /\ DecodedAsEncoded
    /\ wire.payload # None /\ Len(wire.payload[1]) = 2
    /\ \A key \in DOMAIN wire.lce : wire.lce[key] # None
    /\ verdict.result = Return(<<wire.lce, wire.payload>>)

----------------------------------------------------------------------------
(* Independence of the storage backend *)

\* the fields two sessions are compared on
Compared(session) ==
    [thread_id |-> session.thread_id,
     envelopes |-> [i \in DOMAIN session.messages |-> session.messages[i].lce],
     coherence |-> session.coherence,
     metrics |-> session.metrics.coherence,
     previous |-> session.metrics.previous_coherence,
     drift_events |-> session.metrics.drift_events,
     message_count |-> session.metadata.message_count]

SameSessions(memory, redis) ==
    /\ (memory = None) <=> (redis = None)
    /\ memory # None /\ redis # None => Compared(memory[1]) = Compared(redis[1])

\* the sessions the in-process LSS holds
InMemory == {twin.memory[k] : k \in DOMAIN twin.memory}

\* some session holds an event whose details carry a datetime
DatedHeld ==
    \E s \in InMemory : \E i \in DOMAIN s.metrics.drift_events :
       "at" \in DOMAIN s.metrics.drift_events[i].details

\* C30: while no TTL elapses, the session get_session() returns from an LSS over
\* RedisSessionStorage equals, in thread id, envelopes, coherence, current and
\* previous metrics, drift events and message count, the one an LSS over
\* InMemorySessionStorage returns after the same store(), update_metrics(),
\* delete_session() and get_session() calls; and session_from_dict(session_to_dict(s))
\* is s for every session s.
C30_BackendIndependent ==
    /\ twin.op = "get_session" => SameSessions(twin.returned.memory, twin.returned.redis)
    /\ \A s \in InMemory : session_from_dict(session_to_dict(s)) = s

\* the dicts alone give the session back
C30_DictRoundTrip ==
    \A s \in InMemory : session_from_dict(session_to_dict(s)) = s

\* the two LSS return equal sessions as long as no details hold a datetime
C30_SameUnlessDated ==
    twin.op = "get_session" /\ ~DatedHeld =>
        SameSessions(twin.returned.memory, twin.returned.redis)

\* delete_session() returns the same on both
C30_SameDeleted ==
    twin.op = "delete_session" => twin.returned.memory = twin.returned.redis

\* after an update_metrics() with an event dated by a datetime, get_session() returns
\* the datetime from memory and its ISO text from Redis
C30_DatetimeComesBackAsText ==
    /\ twin.op = "get_session"
    /\ twin.returned.memory # None /\ twin.returned.redis # None
    /\ twin.returned.memory[1].metrics.drift_events = <<[DatedEvent EXCEPT !.thread_id = twin.thread]>>
    /\ twin.returned.redis[1].metrics.drift_events =
          <<[DatedEvent EXCEPT !.thread_id = twin.thread,
                               !.details = [at |-> Str(isoformat(0))]]>>

\* a session of two messages, with a payload and a caller's event, is returned equal
C30_EqualSessionsReturned ==
    /\ twin.op = "get_session"
    /\ twin.returned.memory # None /\ twin.returned.redis # None
    /\ Len(twin.returned.memory[1].messages) = 2
    /\ twin.returned.memory[1].metrics.drift_events # <<>>
    /\ ~DatedHeld
    /\ SameSessions(twin.returned.memory, twin.returned.redis)

----------------------------------------------------------------------------
(* The sessions map of the WebSocket server *)

\* the server has sent Seal on the connection
SealSent ==
    \E i \in DOMAIN ws.log : /\ ws.log[i].side = "server" /\ ws.log[i].act = "send"
                             /\ StepOf(ws.log[i].frame) = "seal"

\* a step in which send() raised
SendRaised == ws'.raised # ws.raised /\ ws'.raised = Some("ValueError")

\* a step in which the server sent an envelope
EnvelopeSent == LceSent("server")' = LceSent("server") + 1

\* C31: a session id is in the server's sessions map only between the sending of
\* Seal on its connection and the end of the connection's handler: it is not there
\* before Seal was sent nor once the handler has ended, however it ended, and a
\* send() for an id that is absent raises ValueError and sends nothing, while a
\* send() that sends is one for an id that is there.
C31_RegisteredBetweenSealAndEnd ==
    /\ [](ws.sessions # {} => SealSent /\ ws.server = "ready")
    /\ [][/\ SendRaised => ws.sessions = {} /\ ws'.s2c = ws.s2c /\ ws'.log = ws.log
          /\ EnvelopeSent => "s1" \in ws.sessions]_vars

\* the handler ended on a frame that is no Bind, after Mirror was sent, and a
\* send() for the id of the connection raised ValueError
C31_RaisedAfterFailedHandshake ==
    /\ ws.server = "closed" /\ ws.client # "closed"
    /\ ws.server_encoding # None
    /\ ~SealSent
    /\ ws.raised = Some("ValueError")

\* a session was registered, the connection closed, and send() raised
C31_RaisedAfterClose ==
    /\ ws.client = "closed"
    /\ SealSent
    /\ ws.sessions = {}
    /\ ws.raised = Some("ValueError")

----------------------------------------------------------------------------
(* The message loops *)

\* the envelopes a side has sent, and the envelopes handed to the on_message of a side,
\* in order
EnvelopesSent(side) ==
    LET sent == SelectSeq(ws.log, LAMBDA e : e.side = side /\ e.act = "send" /\ IsLce(e.frame))
    IN [i \in DOMAIN sent |-> sent[i].frame]
Deliveries(side) == SelectSeq(ws.log, LAMBDA e : e.side = side /\ e.act = "deliver")
EnvelopesDelivered(side) == [i \in DOMAIN Deliveries(side) |-> Deliveries(side)[i].frame]

\* the frames the server took after it had sent Seal
TakenInLoop ==
    {i \in DOMAIN ws.log : /\ ws.log[i].side = "server" /\ ws.log[i].act = "recv"
                           /\ \E j \in 1..(i - 1) : /\ ws.log[j].side = "server"
                                                     /\ ws.log[j].act = "send"
                                                     /\ StepOf(ws.log[j].frame) = "seal"}

\* C32: after the handshake a frame that is not JSON or no envelope, and an envelope
\* whose on_message raises, neither close the connection nor remove the session: as
\* long as the client has not closed, the server stays in its loop with the session
\* registered; the envelopes handed to on_message are the well-formed ones received,
\* in the order sent, each with the session id and the thread bound, and once nothing
\* is in flight every well-formed envelope sent has been handed over. The same holds
\* for the envelopes the client's listen() hands over.
C32_LoopSurvivesBadMessages ==
    /\ SealSent /\ ws.client # "closed" => ws.server = "ready" /\ ws.sessions = {"s1"}
    /\ IsPrefix(EnvelopesDelivered("server"), EnvelopesSent("client"))
    /\ IsPrefix(EnvelopesDelivered("client"), EnvelopesSent("server"))
    /\ ws.server = "ready" /\ ws.c2s = <<>> =>
          EnvelopesDelivered("server") = EnvelopesSent("client")
    /\ \A i \in DOMAIN Deliveries("server") :
          /\ Deliveries("server")[i].session_id = Some("s1")
          /\ Deliveries("server")[i].thread_id = ws.thread_id
    /\ \A i \in TakenInLoop :
          IsLce(ws.log[i].frame) <=>
             /\ i < Len(ws.log)
             /\ ws.log[i + 1] \in {[side |-> "server", act |-> "deliver",
                                    frame |-> ws.log[i].frame, raised |-> raises,
                                    session_id |-> Some("s1"), thread_id |-> ws.thread_id] :
                                      raises \in BOOLEAN}

\* on_message raised on the first envelope and was handed the second
C32_DeliveredAfterRaise ==
    /\ Len(Deliveries("server")) = 2
    /\ Deliveries("server")[1].raised
    /\ EnvelopesDelivered("server") = <<LceJson("ask"), LceJson("tell")>>

\* a text that is not JSON was taken in the loop, and the envelope after it handed over
C32_DeliveredAfterBadFrame ==
    /\ \E i \in TakenInLoop : ws.log[i].frame = NotJson
    /\ EnvelopesDelivered("server") = <<LceJson("tell")>>
    /\ ws.sessions = {"s1"}

----------------------------------------------------------------------------
(* The end of the handshake *)

\* connect() waits for a frame, the handler waits for one, and none is on its way
BothWaiting ==
    /\ ws.client \in {"await_mirror", "await_seal"}
    /\ ws.server \in {"await_hello", "await_bind", "ready"}
    /\ ws.c2s = <<>> /\ ws.s2c = <<>>

\* C33: with a connection that is not lost and peers that send well-formed handshake
\* messages, no state is reachable in which connect() and the server's handler both
\* wait for a frame with none in flight, and a connect() that has begun returns, the
\* server being in its message loop by then, unless the connection is closed.
C33_HandshakeTerminates ==
    /\ []~BothWaiting
    /\ ws.client \in {"await_mirror", "await_seal"} ~>
          \/ ws.client = "ready" /\ ws.server = "ready"
          \/ ws.client = "closed"

\* connect() has returned after the four handshake messages, nothing else was sent
C33_ConnectReturned ==
    /\ ws.client = "ready" /\ ws.server = "ready"
    /\ HandshakeSent = <<"hello", "mirror", "bind", "seal">>
    /\ FramesSent("client") = 0

\* the handshake messages the two sides sent
HelloSent == ws.log[CHOOSE i \in Steps("client", "send", "hello") : TRUE].frame
SealOf == ws.log[CHOOSE i \in Steps("server", "send", "seal") : TRUE].frame

\* client and server hold the same session id and the same encoding, the first the
\* client offered
SameIdAndEncoding ==
    /\ ws.session_id = Some("s1") /\ ws.sessions = {"s1"}
    /\ SealOf.session_id = "s1"
    /\ ws.negotiated_encoding = ws.server_encoding
    /\ ws.negotiated_encoding = Some(HelloSent.encodings[1])

\* the Seal and the server's record hold the thread of the client's Bind
SameThread == SealOf.thread = ws.thread_id /\ ws.server_thread = ws.thread_id

\* C34: once connect() has returned, the client's session_id is the id under which
\* the server registered the session, the thread of the Seal and of the server's
\* record is the thread the client sent in Bind, and the client's negotiated_encoding
\* is the encoding the server recorded, the first entry of those offered in Hello.
C34_Agreement == ws.client = "ready" => SameIdAndEncoding /\ SameThread

\* C34 but for the thread
C34_SameIdAndEncoding == ws.client = "ready" => SameIdAndEncoding

\* C34 for a client that sends its first envelope after connect() has returned
C34_AgreementWhenSendingAfterConnect ==
    ws.client = "ready" /\ SendsAfterConnect => SameIdAndEncoding /\ SameThread

\* connect() returned with thread t1 bound by the client and no thread on the server
C34_ThreadLost ==
    /\ ws.client = "ready"
    /\ ws.thread_id = Some("t1")
    /\ ws.server_thread = None /\ SealOf.thread = None

\* connect() returned with cbor agreed and thread t1 on both sides
C34_AgreedOnCbor ==
    /\ ws.client = "ready"
    /\ ws.negotiated_encoding = Some("cbor") /\ ws.server_encoding = Some("cbor")
    /\ ws.server_thread = Some("t1") /\ ws.thread_id = Some("t1")

----------------------------------------------------------------------------
(* Events delivered and events persisted *)

\* the call has ended: it returned, or a listener or storage.save() raised
Ended(c) == calls[c].pc \in {"done", "raised", "failed"}

\* the storage holds the event the call told its listeners
Persisted(c) ==
    LET session == StorageLoad(sessions, calls[c].thread_id, now)
    IN /\ session # None
       /\ \E i \in DOMAIN session[1].metrics.drift_events :
             session[1].metrics.drift_events[i] = calls[c].told[1]

\* C35: once a store() call has ended, by returning or by an exception of a listener
\* or of storage.save(), the event it delivered to a listener is among the drift
\* events of the thread's session as the storage backend holds it.
C35_DeliveredIsPersisted ==
    \A c \in DOMAIN calls : Ended(c) /\ calls[c].told # None => Persisted(c)

\* C35 for the calls that return
C35_PersistedOnReturn ==
    \A c \in DOMAIN calls : calls[c].pc = "done" /\ calls[c].told # None => Persisted(c)

\* C35 over InMemorySessionStorage, whose session is the object the call wrote to
C35_PersistedInMemory ==
    backend = "memory" => C35_DeliveredIsPersisted

\* over Redis a listener raised: it was told an event the storage does not hold
C35_ToldButNotSaved ==
    /\ backend = "redis"
    /\ \E c \in DOMAIN calls :
          calls[c].pc = "raised" /\ calls[c].told # None /\ ~Persisted(c)

\* over Redis storage.save() raised after the listeners had been told
C35_ToldButSaveFailed ==
    /\ backend = "redis"
    /\ \E c \in DOMAIN calls :
          calls[c].pc = "failed" /\ calls[c].told # None /\ ~Persisted(c)

----------------------------------------------------------------------------
(* Listeners that register and remove listeners while an event is delivered *)

MaxEmits == 2
MaxDeliveries == 4

\* what a listener does when it is called: nothing, off() or on() of a callback
ListenerActs ==
    {[do |-> "nothing"]}
        \cup {[do |-> d, callback |-> cb] : d \in {"off", "on"}, cb \in Callbacks}
Behaviours == [Callbacks -> ListenerActs]
Quiet == [cb \in Callbacks |-> [do |-> "nothing"]]

\* the list of listeners after a listener has done its act
Acted(list, act) ==
    CASE act.do = "off" -> off(list, act.callback)
      [] act.do = "on" -> Append(list, act.callback)
      [] OTHER -> list

\* the for loop of _emit (lpi 481-482, lri 228-229) over the list object itself: the
\* iterator holds an index, and reads the list as it is when the next item is asked
\* for; calls beyond MaxDeliveries are not followed
RECURSIVE EmitLoop(_, _, _, _)
EmitLoop(list, i, called, does) ==
    IF i > Len(list) THEN [listeners |-> list, called |-> called, ended |-> TRUE]
    ELSE IF Len(called) = MaxDeliveries
         THEN [listeners |-> list, called |-> called, ended |-> FALSE]
         ELSE EmitLoop(Acted(list, does[list[i]]), i + 1, Append(called, list[i]), does)

\* _emit("drift", payload) as store() calls it at lpi 396, lri 157, the listeners
\* behaving as `does` says
Emit(payload, does) ==
    LET loop == EmitLoop(listeners, 1, <<>>, does)
    IN /\ calls = <<>>
       /\ impl # "dict"
       /\ loop.ended
       /\ listeners' = loop.listeners
       /\ last' = [NoCall EXCEPT
                      !.op = "_emit", !.event = Some(payload),
                      !.delivered = [i \in DOMAIN loop.called |->
                                        [listener |-> loop.called[i], payload |-> payload]]]
       /\ nstores' = nstores + 1
       /\ UNCHANGED <<signing, ws, twin, config, sessions, now, inflight, hist, lastStored,
                      nupdates>>

InitEmit == InitSteps /\ backend = "memory" /\ listeners = <<>>

NextEmit ==
    \/ \E callback \in Callbacks : On(callback)
    \/ \E callback \in Callbacks : Off(callback)
    \/ \E does \in Behaviours : nstores < MaxEmits /\ Emit(NotedEvent, does)

SpecEmit == InitEmit /\ [][NextEmit]_vars

\* how often a callback is in a list
Count(list, callback) == Cardinality({i \in DOMAIN list : list[i] = callback})

\* the callbacks an emission called, in order
CalledBy(call) == [i \in DOMAIN call.delivered |-> call.delivered[i].listener]

\* C36: an emission calls every listener registered when it began exactly once per
\* registration, with the event, whatever the listeners do to the list meanwhile.
C36_EachRegisteredOnce ==
    [][nstores' = nstores + 1 =>
          /\ \A cb \in Range(listeners) :
                Count(CalledBy(last'), cb) = Count(listeners, cb)
          /\ \A i \in DOMAIN last'.delivered : last'.delivered[i].payload = last'.event[1]
      ]_vars

\* C36 for listeners that leave the list alone: called once each, in order
C36_OnceWhenQuiet ==
    /\ EmitLoop(listeners, 1, <<>>, Quiet).called = listeners
    /\ EmitLoop(listeners, 1, <<>>, Quiet).listeners = listeners

\* C36, off(): one registration of the callback goes, the first, the others keep
\* their order; a callback that is not registered leaves the list as it is
C36_OffRemovesOne ==
    \A cb \in Callbacks :
        LET after == off(listeners, cb)
        IN IF cb \in Range(listeners)
           THEN /\ Len(after) = Len(listeners) - 1
                /\ Count(after, cb) = Count(listeners, cb) - 1
                /\ \E i \in DOMAIN listeners :
                      /\ listeners[i] = cb
                      /\ after = SubSeq(listeners, 1, i - 1)
                                    \o SubSeq(listeners, i + 1, Len(listeners))
           ELSE after = listeners

\* cb1 removed itself when called, and cb2, registered behind it, was not called
C36_Skipped ==
    /\ last.op = "_emit"
    /\ CalledBy(last) = <<"cb1">>
    /\ listeners = <<"cb2">>

\* a callback registered during the delivery was called in the same emission
C36_CalledThoughAddedLater ==
    /\ last.op = "_emit"
    /\ Len(last.delivered) > Len(listeners)

----------------------------------------------------------------------------
(* The python-lri LSS and the python-lpi LSS over InMemorySessionStorage, given the
   same calls at the same times *)

MaxPairCalls == 3

NoPair ==
    [lpi |-> EmptyMap, lri |-> EmptyMap, op |-> "none", thread |-> "",
     returned |-> [lpi |-> None, lri |-> None], ncalls |-> 0]

\* store(thread_id, lce) on both
PairStore(thread_id, lce) ==
    /\ twin.ncalls < MaxPairCalls
    /\ twin' = [lpi |-> lss_store("memory", twin.lpi, thread_id, lce, None, now).store,
                lri |-> LriStore(twin.lri, thread_id, lce, None, now).store,
                op |-> "store", thread |-> thread_id,
                returned |-> [lpi |-> None, lri |-> None],
                ncalls |-> twin.ncalls + 1]
    /\ Untwinned

\* get_session(thread_id) on both (lpi 402-405, lri 159-162)
PairGetSession(thread_id) ==
    /\ twin.ncalls < MaxPairCalls
    /\ twin' = [twin EXCEPT
                   !.op = "get_session", !.thread = thread_id,
                   !.returned = [lpi |-> storage_load("memory", twin.lpi, thread_id, now),
                                 lri |-> Get(twin.lri, thread_id)],
                   !.ncalls = @ + 1]
    /\ Untwinned

InitPair ==
    /\ impl = "lpi"
    /\ backend = "memory"
    /\ max_messages = DefaultMaxMessages
    /\ session_ttl = SessionTtl
    /\ coherence_window = DefaultCoherenceWindow
    /\ drift_min_coherence = (6 * Scale) \div 10
    /\ drift_drop_threshold = (2 * Scale) \div 10
    /\ topic_shift_window = DefaultTopicShiftWindow
    /\ sessions = EmptyMap
    /\ listeners = <<>>
    /\ now = 0
    /\ calls = <<>>
    /\ heap = EmptyMap
    /\ resident = EmptyMap
    /\ last = NoCall
    /\ wire = NoWire
    /\ verdict = NoVerdict
    /\ ws = NoConnection
    /\ twin = NoPair
    /\ hist = [k \in Threads |-> <<>>]
    /\ lastStored = [k \in Threads |-> None]
    /\ nstores = 0
    /\ nupdates = 0

NextPair ==
    \/ \E thread_id \in Threads, lce \in BasicEnvelopes : PairStore(thread_id, lce)
    \/ \E thread_id \in Threads : PairGetSession(thread_id)
    \/ Tick

SpecPair == InitPair /\ [][NextPair]_vars

\* what the claim compares of a session get_session returned
Observed(session) ==
    IF session = None THEN None
    ELSE Some([messages |-> session[1].messages,
               coherence |-> session[1].coherence,
               previous_coherence |-> session[1].metrics.previous_coherence,
               drift_events |-> session[1].metrics.drift_events])

\* the thread's own session has outlived the TTL at time t
OwnOutlived(store, thread_id, t) ==
    /\ thread_id \in DOMAIN store
    /\ t - store[thread_id].metadata.updated_at > session_ttl

\* the two LSS hold the same threads and show the same of each
SameHeld(pair) ==
    /\ DOMAIN pair.lpi = DOMAIN pair.lri
    /\ \A k \in DOMAIN pair.lpi : Observed(Some(pair.lpi[k])) = Observed(Some(pair.lri[k]))

\* C37: after the same store() calls at the same times, get_session returns the same
\* messages, coherence, previous coherence and drift events from the python-lri LSS
\* and from the python-lpi LSS over InMemorySessionStorage.
C37_SameObserved ==
    twin.op = "get_session" => Observed(twin.returned.lpi) = Observed(twin.returned.lri)

\* C37 for calls other than a store() on a thread whose own session outlived the
\* TTL: two LSS that hold the same before hold the same after
C37_SameUnlessOwnOutlived ==
    [][/\ twin'.ncalls = twin.ncalls + 1
       /\ SameHeld(twin)
       /\ ~(twin'.op = "store" /\ OwnOutlived(twin.lri, twin'.thread, now))
       => /\ SameHeld(twin')
          /\ Observed(twin'.returned.lpi) = Observed(twin'.returned.lri)]_vars

\* a store() on a thread whose session had outlived the TTL: python-lpi began a new
\* session, python-lri went on with the old one
C37_OldSessionKept ==
    /\ twin.op = "get_session"
    /\ twin.returned.lpi # None /\ twin.returned.lri # None
    /\ Len(twin.returned.lpi[1].messages) = 1
    /\ Len(twin.returned.lri[1].messages) = 2

\* both returned the same session of two messages, another thread's session having
\* been evicted from both meanwhile
C37_SameReturned ==
    /\ twin.op = "get_session"
    /\ twin.returned.lpi # None
    /\ Len(twin.returned.lpi[1].messages) = 2
    /\ Observed(twin.returned.lpi) = Observed(twin.returned.lri)

----------------------------------------------------------------------------
(* The coherence before and the coherence after *)

\* a store() that recomputed: the drop was measured against the coherence the
\* session held before the call, and the three fields hold the prior value, the new
\* result and its overall value
StoreKeepsPrior ==
    nstores' = nstores + 1 /\ last'.recomputed =>
        /\ last'.thread \in DOMAIN sessions
        /\ last'.thread \in DOMAIN sessions'
        /\ LET prior   == sessions[last'.thread].metrics.coherence
               session == sessions'[last'.thread]
               dropped == last'.event # None /\ last'.event[1].type = "coherence_drop"
           IN /\ sessions[last'.thread].metrics.previous_coherence = None =>
                    prior = CoherenceResult(Scale, Scale, Scale, Scale)
              /\ session.metrics.previous_coherence = Some(prior)
              /\ session.metrics.coherence = calculate_coherence(session.messages)
              /\ session.coherence = session.metrics.coherence.overall
              /\ dropped <=> DropCondition(prior.overall, session.coherence)
              /\ dropped => last'.event[1].details.previous = prior.overall

\* update_metrics(thread_id, coherence=c) on a session held: the same three relations
UpdateKeepsPrior ==
    \A k \in DOMAIN sessions : \A c \in CoherenceArgs \ {None} :
        LET out == update_metrics(sessions, k, c, None, now)
        IN /\ out.ret # None
           /\ out.ret[1].previous_coherence = Some(sessions[k].metrics.coherence)
           /\ out.ret[1].coherence = c[1]
           /\ out.store[k].metrics = out.ret[1]
           /\ out.store[k].coherence = c[1].overall

\* C38: a store() that recomputes coherence measures the drop against the coherence
\* the preceding update of the session recorded (overall 1.0 if there was none), and
\* leaves previous_coherence at that prior value, metrics.coherence at the new result
\* and session.coherence at its overall value; update_metrics(coherence=c) leaves the
\* same three relations.
C38_PriorAndNew == []UpdateKeepsPrior /\ [][StoreKeepsPrior]_vars

\* a drop fired on the second message of a session, measured against 1.0
C38_DropOnSecondMessage ==
    /\ last.op = "store" /\ last.event # None
    /\ last.event[1].type = "coherence_drop"
    /\ last.event[1].details.previous = Scale
    /\ Len(sessions[last.thread].messages) = 2

\* a store() recomputed after update_metrics had set the coherence: the value given
\* then is the previous one now
C38_PriorFromUpdateMetrics ==
    /\ last.op = "store" /\ last.recomputed
    /\ nupdates = 1
    /\ sessions[last.thread].metrics.previous_coherence = Some(HalfCoherence)

----------------------------------------------------------------------------
(* The metadata of a session after store() *)

\* the session of the thread a store() call has just written
StoredSession == sessions'[last'.thread]

\* message_count is the length of the list held, created_at is that of the session's
\* creation, updated_at is the time of the call
MetadataOfStore ==
    /\ last'.thread \in DOMAIN sessions'
    /\ StoredSession.metadata.message_count = Len(StoredSession.messages)
    /\ StoredSession.metadata.created_at =
          IF last'.created THEN now ELSE sessions[last'.thread].metadata.created_at
    /\ StoredSession.metadata.updated_at = now
    /\ StoredSession.metadata.updated_at >= StoredSession.metadata.created_at

\* C39: after every store() of the LSS with metadata, message_count is the length of
\* the session's message list and so never above max_messages, created_at is what it
\* was at the session's creation, and updated_at is the time of the call, never
\* earlier than created_at.
C39_MetadataAfterStore ==
    [][nstores' = nstores + 1 /\ impl # "dict" =>
          /\ MetadataOfStore
          /\ StoredSession.metadata.message_count <= max_messages]_vars

\* C39 without the bound by max_messages
C39_CountIsLength ==
    [][nstores' = nstores + 1 /\ impl # "dict" => MetadataOfStore]_vars

\* C39 for an LSS built with max_messages of one or more
C39_WithinMaxWhenPositive ==
    [][nstores' = nstores + 1 /\ impl # "dict" /\ max_messages >= 1 =>
          /\ MetadataOfStore
          /\ StoredSession.metadata.message_count <= max_messages]_vars

\* an LSS built with max_messages=0 holds a session that counts a message
C39_CountAboveMax ==
    /\ impl # "dict" /\ max_messages = 0
    /\ last.op = "store"
    /\ sessions[last.thread].metadata.message_count > max_messages

\* more messages were stored on the thread than its session counts
C39_CountBelowStored ==
    /\ impl # "dict" /\ max_messages >= 1
    /\ last.op = "store"
    /\ sessions[last.thread].metadata.message_count < Len(hist[last.thread])
    /\ sessions[last.thread].metadata.updated_at > sessions[last.thread].metadata.created_at

====
